---- MODULE Spec2Model ----
(***************************************************************************)
(* Kumo Cloud integration: the data update coordinator                     *)
(* (KumoCloudDataUpdateCoordinator) and the device view (KumoCloudDevice)  *)
(* of custom_components/kumo_cloud/__init__.py.                            *)
(*                                                                         *)
(* The coordinator and the commands are asyncio coroutines on one event    *)
(* loop: a coroutine runs alone from one await to the next, so every       *)
(* action below is the code between two awaits, enabled by the answer of   *)
(* the cloud the coroutine is waiting for.                                 *)
(*                                                                         *)
(* Python values: a dict is a function on its keys; None is <<>> and a     *)
(* value v stored in a dict that may hold None is <<v>>.                   *)
(***************************************************************************)
EXTENDS Integers, Sequences, FiniteSets, TLC

\* The nested calls of _async_update_data the interpreter allows: the retry
\* is a recursive call, which the code does not bound itself; the interpreter
\* ends it with RecursionError at its recursion limit (CPython 3.11 with the
\* default limit: at the 988th nested call).
MaxDepth == 3

\* The calls of _async_update_data and of send_command followed while in
\* flight at the same time: the code bounds neither.
MaxCalls == 2

None == <<>>
Some(v) == <<v>>
EmptyDict == [k \in {} |-> None]

\* dict.get(k): the value, or None when the key is absent
Get(d, k) == IF k \in DOMAIN d THEN d[k] ELSE None

\* d[k] = v, adding the key when absent
DictSet(d, k, v) == [x \in DOMAIN d \cup {k} |-> IF x = k THEN v ELSE d[x]]

(***************************************************************************)
(* The answers of the cloud (api.py is an external collaborator: each      *)
(* request answers with a value or with one of three kinds of error).      *)
(***************************************************************************)
AuthError == "KumoCloudAuthError"
ConnError == "KumoCloudConnectionError"
OtherError == "Exception"
ErrorKinds == {AuthError, ConnError, OtherError}

Serials == {"s1", "s2"}

AdapterOf(s) ==
    [deviceSerial |-> Some(s), connected |-> Some(TRUE), roomTemp |-> Some(22),
     operationMode |-> Some("cool"), power |-> Some(1), fanSpeed |-> Some("auto"),
     airDirection |-> Some("auto"), spCool |-> Some(24), spHeat |-> Some(18),
     humidity |-> Some(45)]

ZoneWith(id, s) == [id |-> id, name |-> id, adapter |-> Some(AdapterOf(s))]
ZoneNullAdapter(id) == [id |-> id, name |-> id, adapter |-> None]

ZoneAnswers ==
    { << ZoneWith("z1", "s1") >>,
      << ZoneWith("z1", "s1"), ZoneWith("z2", "s2") >>,
      << ZoneNullAdapter("z1"), ZoneWith("z2", "s2") >> }

\* A detail as the cloud's data model gives it (no roomTemp), and a sparse one.
DetailA ==
    [connected |-> Some(TRUE), operationMode |-> Some("heat"), power |-> Some(1),
     fanSpeed |-> Some("low"), airDirection |-> Some("swing"), spCool |-> Some(25),
     spHeat |-> Some(20), humidity |-> Some(50)]
DetailB ==
    [roomTemp |-> Some(23), operationMode |-> Some("off"), power |-> Some(0)]
DetailAnswers == {DetailA, DetailB}

ProfileA ==
    [numberOfFanSpeeds |-> 3, hasFanSpeedAuto |-> TRUE, hasVaneSwing |-> TRUE,
     hasModeHeat |-> TRUE, hasModeDry |-> TRUE, hasModeVent |-> FALSE,
     minimumSetPoints |-> [heat |-> 10, cool |-> 16],
     maximumSetPoints |-> [heat |-> 28, cool |-> 31]]
ProfileAnswers == { << ProfileA >>, << >> }

(***************************************************************************)
(* State                                                                   *)
(***************************************************************************)
VARIABLES
    zones,            \* coordinator.zones
    devices,          \* coordinator.devices
    device_profiles,  \* coordinator.device_profiles
    entities,         \* the KumoCloudDevice views created at platform setup
    setup_done,      \* the platforms have been set up
    syncPc,           \* position of the full-sync cycle (_async_update_data)
    loc_zones,        \* its local  zones
    loc_devices,      \* its local  devices
    loc_profiles,     \* its local  device_profiles
    zi,               \* index in loc_zones of the zone whose gather is awaited
    syncError,        \* what the cycle raised to the poll loop
    sync_answer,      \* the last answer of the cloud to the cycle
    getZonesCalls,    \* get_zones requests issued in this cycle, one per
                      \* nested call of _async_update_data
    refreshCalls,     \* refresh_access_token requests issued in this cycle
    base,             \* the snapshot without the writes of the cycle in flight
    last_write,       \* who wrote the snapshot last: a full sync ("sync") or
                      \* a targeted refresh ("refresh")
    cmdPc,            \* position of KumoCloudDevice.send_command
    cmdSerial,        \* its device.device_serial
    cmdCaller,        \* the climate entity whose service call awaits it in
                      \* _send_command_and_refresh, as <<entity>>; None when
                      \* device.send_command has another caller
    cmdError,         \* what send_command raised to its caller
    cmdLog,           \* the requests, answers and sleeps of the send_command call, in order
    awaited,          \* the requests the cycle has issued and is awaiting
    earlier_cycles,   \* the calls of _async_update_data started before the
                      \* latest one and still in flight, oldest first, each
                      \* with its locals (syncPc ... describe the latest call)
    earlier_cmds,     \* the calls of send_command started before the latest
                      \* one and still in flight, oldest first
    last_update_success, \* coordinator.last_update_success: DataUpdateCoordinator
                      \* sets it when _async_update_data has returned (True)
                      \* or raised (False); followed in PollSpec only
    last_detail,      \* what get_device_details answered to async_refresh_device
    temperature_unit, \* hass.config.units.temperature_unit
    ha_state,         \* what the properties of a climate entity returned when
                      \* its state was last written
    sent,             \* the commands of the last service call of an entity
    cloud,            \* the cloud's record of each device: what
                      \* get_device_details answers when the cloud is consistent
    payload,          \* the commands dict passed to device.send_command
    issued,           \* how many times the payload has been issued
    after_first,      \* the cached state of the device when the refresh of
                      \* the first issue had answered
    sensors,          \* the setpoint sensors created at platform setup, each
                      \* with its _cached_value; followed in SensorSpec only
    humidity_sensors, \* the KumoCloudHumiditySensor entities created at platform
                      \* setup, by the device view of each, with the native_value
                      \* read when its state was last written (None before)
    data,             \* coordinator.data as async_refresh_device assigns it
                      \* (None before the first targeted refresh)
    watched           \* the place, among the calls of _async_update_data in
                      \* flight (oldest first), of the call whose end FairSpec
                      \* waits for; 0 when none

snap == <<zones, devices, device_profiles>>
\* the dict of lines 179-183
SnapshotDict(zs, devs, profs) ==
    [zones |-> zs, devices |-> devs, device_profiles |-> profs]
syncVars == <<syncPc, loc_zones, loc_devices, loc_profiles, zi, syncError,
              sync_answer, getZonesCalls, refreshCalls, awaited,
              earlier_cycles, last_update_success>>
cmdVars == <<cmdPc, cmdSerial, cmdCaller, cmdError, cmdLog, last_detail, earlier_cmds>>
cloudVars == <<cloud, payload, issued, after_first>>
climateVars == <<temperature_unit, ha_state, sent, cloudVars>>
viewVars == <<climateVars, sensors, watched>>
vars == <<zones, devices, device_profiles, entities, setup_done, syncPc,
          loc_zones, loc_devices, loc_profiles, zi, syncError, sync_answer,
          getZonesCalls, refreshCalls, base, cmdPc, cmdSerial, cmdCaller, cmdError, cmdLog,
          awaited, last_detail, temperature_unit, ha_state, sent, last_write,
                   data,
          cloud, payload, issued, after_first, last_update_success, sensors,
          humidity_sensors,
          earlier_cycles, earlier_cmds, watched>>

InFlight == {"GET_ZONES", "GATHER", "REFRESHING_TOKEN"}
CmdInFlight == {"SENDING", "SLEEPING", "REFRESHING"}

\* a sequence without its i-th element
Remove(seq, i) == SubSeq(seq, 1, i - 1) \o SubSeq(seq, i + 1, Len(seq))

\* UnitOfTemperature
CELSIUS == "C"
FAHRENHEIT == "F"

\* the requests of the cycle
GetZonesRequest == <<"get_zones", "site">>
RefreshTokenRequest == <<"refresh_access_token", "">>

\* no record of the cloud is kept, no payload is being issued
NoCloud ==
    /\ cloud = EmptyDict
    /\ payload = EmptyDict
    /\ issued = 0
    /\ after_first = None

Init ==
    /\ zones = << >>
    /\ devices = EmptyDict
    /\ device_profiles = EmptyDict
    /\ entities = {}
    /\ setup_done = FALSE
    /\ syncPc = "IDLE"
    /\ loc_zones = << >>
    /\ loc_devices = EmptyDict
    /\ loc_profiles = EmptyDict
    /\ zi = 0
    /\ syncError = "none"
    /\ sync_answer = "none"
    /\ getZonesCalls = 0
    /\ refreshCalls = 0
    /\ base = << << >>, EmptyDict, EmptyDict >>
    /\ last_write = "none"
    /\ data = None
    /\ cmdPc = "idle"
    /\ cmdSerial = "none"
    /\ cmdCaller = None
    /\ cmdError = "none"
    /\ cmdLog = << >>
    /\ awaited = {}
    /\ earlier_cycles = << >>
    /\ earlier_cmds = << >>
    /\ last_update_success = TRUE
    /\ last_detail = EmptyDict
    /\ temperature_unit = CELSIUS
    /\ ha_state = EmptyDict
    /\ sent = EmptyDict
    /\ sensors = {}
    /\ humidity_sensors = EmptyDict
    /\ watched = 0
    /\ NoCloud

(***************************************************************************)
(* Helpers of the coordinator                                              *)
(***************************************************************************)
\* `"adapter" in zone and zone["adapter"]`
HasAdapter(zone) ==
    /\ "adapter" \in DOMAIN zone
    /\ zone.adapter # None
    /\ DOMAIN zone.adapter[1] # {}

\* zone["adapter"]["deviceSerial"]
SerialOf(zone) == zone.adapter[1].deviceSerial[1]

\* the next iteration of `for zone in zones` that awaits: the first zone with
\* an adapter at index i or later, 0 when the loop is over
RECURSIVE NextAdapterZone(_, _)
NextAdapterZone(zs, i) ==
    IF i > Len(zs) THEN 0
    ELSE IF HasAdapter(zs[i]) THEN i
    ELSE NextAdapterZone(zs, i + 1)

\* Mutant: the fetched data is stored as the loop goes, not at its end.
StoredSnapshotEarly(done, fetched) == fetched

\* Mutant: the retried call (after a token refresh) does not store its data.
StoredSnapshotNotOnRetry(done, fetched) ==
    IF done /\ refreshCalls = 0 THEN fetched ELSE snap

\* Mutant: the commit keeps the detail a targeted refresh wrote last.
StoredSnapshotKeepsRefreshed(done, fetched) ==
    IF done
      THEN << fetched[1],
              IF last_write = "refresh"
                  /\ cmdSerial \in DOMAIN devices \cap DOMAIN fetched[2]
                THEN [fetched[2] EXCEPT ![cmdSerial] = devices[cmdSerial]]
                ELSE fetched[2],
              fetched[3] >>
      ELSE snap

\* what self.zones, self.devices, self.device_profiles hold when the coroutine
\* suspends or returns: the fetched data once the loop is over, else untouched
StoredSnapshot(done, fetched) == IF done THEN fetched ELSE snap

\* climate.py async_setup_entry: one KumoCloudDevice per zone with an adapter
EntitiesOf(zs) ==
    { [zone_id |-> zs[i].id, device_serial |-> SerialOf(zs[i])] :
        i \in {j \in 1..Len(zs) : HasAdapter(zs[j])} }

\* sensor.py async_setup_entry: one KumoCloudHumiditySensor per zone with an
\* adapter whose humidity is not None; its state has not been written yet
HumiditySensorsOf(zs) ==
    [e \in { [zone_id |-> zs[i].id, device_serial |-> SerialOf(zs[i])] :
                i \in {j \in 1..Len(zs) :
                          /\ HasAdapter(zs[j])
                          /\ Get(zs[j].adapter[1], "humidity") # None} }
        |-> None]

\* Mutant: a connection error is handled like an authentication error.
ExceptClauseRetryOnConn(kind) ==
    IF kind \in {AuthError, ConnError} THEN "refresh" ELSE "unexpected"

\* which except clause of _async_update_data catches an error of the try body
ExceptClause(kind) ==
    IF kind = AuthError THEN "refresh"
    ELSE IF kind = ConnError THEN "comm"
    ELSE "unexpected"

PatchedFields ==
    {"roomTemp", "operationMode", "power", "fanSpeed", "airDirection",
     "spCool", "spHeat", "humidity"}

\* Mutant: the cached detail is replaced, the zone's adapter is left as it was.
PatchAdapterNothing(adapter, detail) == adapter

\* Mutant: the patch also takes `connected` from the detail.
PatchAdapterConnected(adapter, detail) ==
    [k \in DOMAIN adapter \cup PatchedFields \cup {"connected"} |->
        IF k \in PatchedFields \cup {"connected"} THEN Get(detail, k)
        ELSE adapter[k]]

\* zone["adapter"].update({f: device_detail.get(f) for the eight fields})
PatchAdapter(adapter, detail) ==
    [k \in DOMAIN adapter \cup PatchedFields |->
        IF k \in PatchedFields THEN Get(detail, k) ELSE adapter[k]]

\* the first zone of zs whose adapter has this deviceSerial, 0 when none
RECURSIVE MatchingZone(_, _, _)
MatchingZone(zs, s, i) ==
    IF i > Len(zs) THEN 0
    ELSE IF HasAdapter(zs[i]) /\ SerialOf(zs[i]) = s THEN i
    ELSE MatchingZone(zs, s, i + 1)

\* the zone loop of async_refresh_device
RefreshedZones(zs, s, detail) ==
    LET i == MatchingZone(zs, s, 1) IN
    IF i = 0 THEN zs
    ELSE [zs EXCEPT ![i] =
            [@ EXCEPT !.adapter = Some(PatchAdapter(@[1], detail))]]

\* Mutant: the adapter is patched from the detail cached before the refresh.
RefreshedSnapshotStalePatch(sn, s, detail) ==
    << RefreshedZones(sn[1], s, Get(sn[2], s)), DictSet(sn[2], s, detail), sn[3] >>

\* the writes of a successful async_refresh_device, on a snapshot
RefreshedSnapshot(sn, s, detail) ==
    << RefreshedZones(sn[1], s, detail), DictSet(sn[2], s, detail), sn[3] >>

(***************************************************************************)
(* The device view: KumoCloudDevice                                        *)
(***************************************************************************)
\* Mutant: the zone is looked up in the zones the cycle in flight fetched.
RECURSIVE ZoneLookupFetched(_, _, _)
ZoneLookupFetched(zs, id, i) ==
    IF i > Len(loc_zones) THEN EmptyDict
    ELSE IF loc_zones[i].id = id THEN loc_zones[i]
    ELSE ZoneLookupFetched(zs, id, i + 1)

\* the loop of zone_data: the first zone with this id, {} when there is none
RECURSIVE ZoneLookup(_, _, _)
ZoneLookup(zs, id, i) ==
    IF i > Len(zs) THEN EmptyDict
    ELSE IF zs[i].id = id THEN zs[i]
    ELSE ZoneLookup(zs, id, i + 1)

\* KumoCloudDevice.zone_data
ZoneData(e) == ZoneLookup(zones, e.zone_id, 1)

\* KumoCloudDevice.device_data
DeviceData(e) ==
    IF e.device_serial \in DOMAIN devices THEN devices[e.device_serial]
    ELSE EmptyDict

\* KumoCloudDevice.profile_data
ProfileData(e) ==
    IF e.device_serial \in DOMAIN device_profiles
      THEN device_profiles[e.device_serial]
      ELSE << >>

(***************************************************************************)
(* The full-sync cycle: _async_update_data                                 *)
(***************************************************************************)
\* the locals of the latest call of _async_update_data
ThisCycle ==
    [pc |-> syncPc, loc_zones |-> loc_zones, loc_devices |-> loc_devices,
     loc_profiles |-> loc_profiles, zi |-> zi, getZonesCalls |-> getZonesCalls,
     refreshCalls |-> refreshCalls]

\* the calls of _async_update_data, and of send_command, in flight
CyclesInFlight ==
    Len(earlier_cycles) + (IF syncPc \in InFlight THEN 1 ELSE 0)
CmdsInFlight ==
    Len(earlier_cmds) + (IF cmdPc \in CmdInFlight THEN 1 ELSE 0)
CallsInFlight == CyclesInFlight + CmdsInFlight

\* _async_update_data is called: by a scheduled tick, by the first refresh of
\* setup, or by a requested refresh. Nothing in the method keeps a call from
\* starting while another is in flight; the calls in flight are capped at
\* MaxCalls.
SyncStartStep ==
    /\ CallsInFlight < MaxCalls
    /\ earlier_cycles' = IF syncPc \in InFlight
                           THEN Append(earlier_cycles, ThisCycle)
                           ELSE earlier_cycles
    /\ syncPc' = "GET_ZONES"
    /\ loc_zones' = << >>
    /\ loc_devices' = EmptyDict
    /\ loc_profiles' = EmptyDict
    /\ zi' = 0
    /\ syncError' = "none"
    /\ sync_answer' = "none"
    /\ getZonesCalls' = 1
    /\ refreshCalls' = 0
    /\ awaited' = {GetZonesRequest}
    /\ base' = snap
    /\ UNCHANGED <<zones, devices, device_profiles, entities, setup_done, humidity_sensors,
                   last_write, data, cmdVars>>
SyncStart == SyncStartStep /\ UNCHANGED <<last_update_success, viewVars>>

\* Mutant: the profile is requested only after the detail has answered.
GatherRequestsSequenced(s) == { <<"get_device_details", s>> }

\* the two coroutines handed to asyncio.gather for one zone: both requests
\* are issued before the cycle awaits either
GatherRequests(s) ==
    { <<"get_device_details", s>>, <<"get_device_profile", s>> }

\* The loop from zone index `from` on, up to its next await or to the return.
\* The first cycle that returns is async_config_entry_first_refresh: the
\* platforms are set up after it and create the entities from self.zones (a
\* first refresh that fails ends the setup, which starts again later with a
\* new, empty coordinator).
ProceedStep(zs, devs, profs, from) ==
    LET j == NextAdapterZone(zs, from)
        done == (j = 0)
        stored == StoredSnapshot(done, <<zs, devs, profs>>)
    IN  /\ loc_zones' = zs
        /\ loc_devices' = devs
        /\ loc_profiles' = profs
        /\ zi' = j
        /\ syncPc' = IF done THEN "SUCCESS" ELSE "GATHER"
        /\ zones' = stored[1]
        /\ devices' = stored[2]
        /\ device_profiles' = stored[3]
        /\ base' = IF done THEN stored ELSE base
        /\ last_write' = IF done THEN "sync" ELSE last_write
        /\ UNCHANGED data
        /\ IF done /\ ~setup_done
             THEN /\ entities' = EntitiesOf(zs)
                  /\ humidity_sensors' = HumiditySensorsOf(zs)
                  /\ setup_done' = TRUE
             ELSE UNCHANGED <<entities, humidity_sensors, setup_done>>
        /\ sync_answer' = "ok"
        /\ awaited' = IF done THEN {} ELSE GatherRequests(SerialOf(zs[j]))
        /\ UNCHANGED <<syncError, getZonesCalls, refreshCalls, earlier_cycles,
                       cmdVars>>
Proceed(zs, devs, profs, from) ==
    ProceedStep(zs, devs, profs, from) /\ UNCHANGED <<last_update_success, viewVars>>

\* get_zones answers with the zones of the site.
GetZonesOkStep(zl) ==
    /\ syncPc = "GET_ZONES"
    /\ ProceedStep(zl, EmptyDict, EmptyDict, 1)
GetZonesOk(zl) ==
    /\ syncPc = "GET_ZONES"
    /\ Proceed(zl, EmptyDict, EmptyDict, 1)

\* asyncio.gather of get_device_details and get_device_profile answers.
GatherOkStep(detail, profile) ==
    /\ syncPc = "GATHER"
    /\ LET s == SerialOf(loc_zones[zi]) IN
       ProceedStep(loc_zones, DictSet(loc_devices, s, detail),
                   DictSet(loc_profiles, s, profile), zi + 1)
GatherOk(detail, profile) ==
    /\ syncPc = "GATHER"
    /\ LET s == SerialOf(loc_zones[zi]) IN
       Proceed(loc_zones, DictSet(loc_devices, s, detail),
               DictSet(loc_profiles, s, profile), zi + 1)

\* Mutant: a hard failure clears the stored snapshot.
FetchFailClearsSnapshot(kind) ==
    /\ syncPc \in {"GET_ZONES", "GATHER"}
    /\ sync_answer' = kind
    /\ loc_zones' = << >>
    /\ loc_devices' = EmptyDict
    /\ loc_profiles' = EmptyDict
    /\ zi' = 0
    /\ IF kind = AuthError
         THEN /\ syncPc' = "REFRESHING_TOKEN"
              /\ refreshCalls' = refreshCalls + 1
              /\ awaited' = {RefreshTokenRequest}
              /\ UNCHANGED <<syncError, zones, devices, device_profiles>>
         ELSE /\ syncPc' = "FAILED"
              /\ awaited' = {}
              /\ syncError' = "UpdateFailed: Unexpected error"
              /\ zones' = << >>
              /\ devices' = EmptyDict
              /\ device_profiles' = EmptyDict
              /\ UNCHANGED refreshCalls
    /\ UNCHANGED <<entities, setup_done, humidity_sensors, getZonesCalls, base, last_write,
                   data,
                   earlier_cycles, last_update_success, cmdVars, viewVars>>

\* get_zones or the gather raises: the except clauses.
FetchFailStep(kind) ==
    /\ syncPc \in {"GET_ZONES", "GATHER"}
    /\ sync_answer' = kind
    /\ loc_zones' = << >>
    /\ loc_devices' = EmptyDict
    /\ loc_profiles' = EmptyDict
    /\ zi' = 0
    /\ IF ExceptClause(kind) = "refresh"
         THEN /\ syncPc' = "REFRESHING_TOKEN"
              /\ refreshCalls' = refreshCalls + 1
              /\ awaited' = {RefreshTokenRequest}
              /\ UNCHANGED syncError
         ELSE /\ syncPc' = "FAILED"
              /\ awaited' = {}
              /\ syncError' = IF ExceptClause(kind) = "comm"
                                THEN "UpdateFailed: Error communicating with API"
                                ELSE "UpdateFailed: Unexpected error"
              /\ UNCHANGED refreshCalls
    /\ UNCHANGED <<zones, devices, device_profiles, entities, setup_done, humidity_sensors,
                   getZonesCalls, base, last_write,
                   data, earlier_cycles, cmdVars>>
FetchFail(kind) == FetchFailStep(kind) /\ UNCHANGED <<last_update_success, viewVars>>

\* Mutant: the retry is a fresh cycle run from the top in the same call (a
\* loop), not a nested call: nothing bounds it.
RefreshTokenOkRestarts ==
    /\ syncPc = "REFRESHING_TOKEN"
    /\ syncPc' = "GET_ZONES"
    /\ sync_answer' = "ok"
    /\ getZonesCalls' = 1
    /\ refreshCalls' = 0
    /\ awaited' = {GetZonesRequest}
    /\ UNCHANGED <<zones, devices, device_profiles, entities, setup_done, humidity_sensors,
                   loc_zones, loc_devices, loc_profiles, zi, syncError,
                   base, last_write, data, earlier_cycles, cmdVars>>

\* refresh_access_token answers: `return await self._async_update_data()`, a
\* nested call that requests get_zones again; at the recursion limit the
\* nested call raises RecursionError instead, in its try body (caught by its
\* `except Exception`) or before it (raised as it is).
RefreshTokenOkStep ==
    /\ syncPc = "REFRESHING_TOKEN"
    /\ sync_answer' = "ok"
    /\ IF getZonesCalls < MaxDepth
         THEN /\ syncPc' = "GET_ZONES"
              /\ getZonesCalls' = getZonesCalls + 1
              /\ awaited' = {GetZonesRequest}
              /\ UNCHANGED syncError
         ELSE /\ syncPc' = "FAILED"
              /\ awaited' = {}
              /\ syncError' \in {"UpdateFailed: Unexpected error", "RecursionError"}
              /\ UNCHANGED getZonesCalls
    /\ UNCHANGED <<zones, devices, device_profiles, entities, setup_done, humidity_sensors,
                   loc_zones, loc_devices, loc_profiles, zi,
                   refreshCalls, base, last_write,
                   data, earlier_cycles, cmdVars>>
RefreshTokenOk == RefreshTokenOkStep /\ UNCHANGED <<last_update_success, viewVars>>

\* refresh_access_token raises: only KumoCloudAuthError is caught there.
RefreshTokenFailStep(kind) ==
    /\ syncPc = "REFRESHING_TOKEN"
    /\ syncPc' = "FAILED"
    /\ awaited' = {}
    /\ syncError' = IF kind = AuthError
                      THEN "UpdateFailed: Authentication failed"
                      ELSE kind
    /\ sync_answer' = kind
    /\ UNCHANGED <<zones, devices, device_profiles, entities, setup_done, humidity_sensors,
                   loc_zones, loc_devices, loc_profiles, zi, getZonesCalls,
                   refreshCalls, base, last_write,
                   data, earlier_cycles, cmdVars>>
RefreshTokenFail(kind) ==
    RefreshTokenFailStep(kind) /\ UNCHANGED <<last_update_success, viewVars>>

(***************************************************************************)
(* The same steps in a call of _async_update_data that is not the latest:  *)
(* the call works on its own locals and, when it returns, stores what it   *)
(* fetched like any other call. A call that has returned or raised is no   *)
(* longer followed.                                                        *)
(***************************************************************************)
\* the variables of the latest call
thisCycleVars == <<syncPc, loc_zones, loc_devices, loc_profiles, zi, syncError,
                   sync_answer, getZonesCalls, refreshCalls, awaited>>

\* the requests a call in flight has issued and is awaiting
AwaitedBy(c) ==
    IF c.pc = "GET_ZONES" THEN {GetZonesRequest}
    ELSE IF c.pc = "GATHER" THEN GatherRequests(SerialOf(c.loc_zones[c.zi]))
    ELSE IF c.pc = "REFRESHING_TOKEN" THEN {RefreshTokenRequest}
    ELSE {}

\* The loop of the i-th earlier call from zone index `from` on, up to its
\* next await or to the return.
EarlierProceedStep(i, zs, devs, profs, from) ==
    LET j == NextAdapterZone(zs, from)
        done == (j = 0)
        stored == StoredSnapshot(done, <<zs, devs, profs>>)
    IN  /\ earlier_cycles' =
              IF done THEN Remove(earlier_cycles, i)
              ELSE [earlier_cycles EXCEPT ![i] =
                      [@ EXCEPT !.pc = "GATHER", !.loc_zones = zs,
                                !.loc_devices = devs, !.loc_profiles = profs,
                                !.zi = j]]
        /\ zones' = stored[1]
        /\ devices' = stored[2]
        /\ device_profiles' = stored[3]
        /\ base' = IF done THEN stored ELSE base
        /\ last_write' = IF done THEN "sync" ELSE last_write
        /\ UNCHANGED data
        /\ IF done /\ ~setup_done
             THEN /\ entities' = EntitiesOf(zs)
                  /\ humidity_sensors' = HumiditySensorsOf(zs)
                  /\ setup_done' = TRUE
             ELSE UNCHANGED <<entities, humidity_sensors, setup_done>>
        /\ UNCHANGED <<thisCycleVars, cmdVars>>

\* get_zones answers to the i-th earlier call.
EarlierGetZonesOkStep(i, zl) ==
    /\ i \in 1..Len(earlier_cycles)
    /\ earlier_cycles[i].pc = "GET_ZONES"
    /\ EarlierProceedStep(i, zl, EmptyDict, EmptyDict, 1)
EarlierGetZonesOk(i, zl) ==
    EarlierGetZonesOkStep(i, zl) /\ UNCHANGED <<last_update_success, viewVars>>

\* asyncio.gather answers to the i-th earlier call.
EarlierGatherOkStep(i, detail, profile) ==
    /\ i \in 1..Len(earlier_cycles)
    /\ earlier_cycles[i].pc = "GATHER"
    /\ LET c == earlier_cycles[i]
           s == SerialOf(c.loc_zones[c.zi])
       IN  EarlierProceedStep(i, c.loc_zones, DictSet(c.loc_devices, s, detail),
                              DictSet(c.loc_profiles, s, profile), c.zi + 1)
EarlierGatherOk(i, detail, profile) ==
    EarlierGatherOkStep(i, detail, profile)
        /\ UNCHANGED <<last_update_success, viewVars>>

\* get_zones or the gather of the i-th earlier call raises.
EarlierFetchFailStep(i, kind) ==
    /\ i \in 1..Len(earlier_cycles)
    /\ earlier_cycles[i].pc \in {"GET_ZONES", "GATHER"}
    /\ earlier_cycles' =
          IF ExceptClause(kind) = "refresh"
            THEN [earlier_cycles EXCEPT ![i] =
                    [@ EXCEPT !.pc = "REFRESHING_TOKEN", !.loc_zones = << >>,
                              !.loc_devices = EmptyDict,
                              !.loc_profiles = EmptyDict, !.zi = 0,
                              !.refreshCalls = @ + 1]]
            ELSE Remove(earlier_cycles, i)
    /\ UNCHANGED <<zones, devices, device_profiles, entities, setup_done, humidity_sensors,
                   thisCycleVars, base, last_write, data, cmdVars>>
EarlierFetchFail(i, kind) ==
    EarlierFetchFailStep(i, kind) /\ UNCHANGED <<last_update_success, viewVars>>

\* refresh_access_token answers to the i-th earlier call.
EarlierRefreshTokenOkStep(i) ==
    /\ i \in 1..Len(earlier_cycles)
    /\ earlier_cycles[i].pc = "REFRESHING_TOKEN"
    /\ earlier_cycles' =
          IF earlier_cycles[i].getZonesCalls < MaxDepth
            THEN [earlier_cycles EXCEPT ![i] =
                    [@ EXCEPT !.pc = "GET_ZONES", !.getZonesCalls = @ + 1]]
            ELSE Remove(earlier_cycles, i)
    /\ UNCHANGED <<zones, devices, device_profiles, entities, setup_done, humidity_sensors,
                   thisCycleVars, base, last_write, data, cmdVars>>
EarlierRefreshTokenOk(i) ==
    EarlierRefreshTokenOkStep(i) /\ UNCHANGED <<last_update_success, viewVars>>

\* refresh_access_token of the i-th earlier call raises.
EarlierRefreshTokenFailStep(i) ==
    /\ i \in 1..Len(earlier_cycles)
    /\ earlier_cycles[i].pc = "REFRESHING_TOKEN"
    /\ earlier_cycles' = Remove(earlier_cycles, i)
    /\ UNCHANGED <<zones, devices, device_profiles, entities, setup_done, humidity_sensors,
                   thisCycleVars, base, last_write, data, cmdVars>>
EarlierRefreshTokenFail(i) ==
    EarlierRefreshTokenFailStep(i) /\ UNCHANGED <<last_update_success, viewVars>>

(***************************************************************************)
(* The climate entity: KumoCloudClimate (climate.py)                       *)
(*                                                                         *)
(* What a property returns is [raised, value]: value is the returned       *)
(* value, <<v>> or None; raised says that the read raised AttributeError.  *)
(***************************************************************************)
OPERATION_MODE_OFF == "off"
OPERATION_MODE_COOL == "cool"
OPERATION_MODE_HEAT == "heat"
OPERATION_MODE_DRY == "dry"
OPERATION_MODE_VENT == "vent"
OPERATION_MODE_AUTO == "auto"
OPERATION_MODE_AUTO_COOL == "autoCool"
OPERATION_MODE_AUTO_HEAT == "autoHeat"

\* HVACMode and HVACAction
HVAC_OFF == "off"
HVAC_COOL == "cool"
HVAC_HEAT == "heat"
HVAC_DRY == "dry"
HVAC_FAN_ONLY == "fan_only"
HVAC_HEAT_COOL == "heat_cool"
ACTION_OFF == "off"
ACTION_HEATING == "heating"
ACTION_COOLING == "cooling"
ACTION_DRYING == "drying"
ACTION_FAN == "fan"
ACTION_IDLE == "idle"

\* the items of the dict KUMO_TO_HVAC_MODE, in insertion order
KUMO_TO_HVAC_MODE ==
    << <<OPERATION_MODE_OFF, HVAC_OFF>>,
       <<OPERATION_MODE_COOL, HVAC_COOL>>,
       <<OPERATION_MODE_HEAT, HVAC_HEAT>>,
       <<OPERATION_MODE_DRY, HVAC_DRY>>,
       <<OPERATION_MODE_VENT, HVAC_FAN_ONLY>>,
       <<OPERATION_MODE_AUTO, HVAC_HEAT_COOL>>,
       <<OPERATION_MODE_AUTO_COOL, HVAC_HEAT_COOL>>,
       <<OPERATION_MODE_AUTO_HEAT, HVAC_HEAT_COOL>> >>

\* KUMO_TO_HVAC_MODE.get(operation_mode, HVACMode.OFF)
KumoToHvac(operation_mode) ==
    LET I == {i \in 1..Len(KUMO_TO_HVAC_MODE) :
                Some(KUMO_TO_HVAC_MODE[i][1]) = operation_mode}
    IN  IF I = {} THEN HVAC_OFF ELSE KUMO_TO_HVAC_MODE[CHOOSE i \in I : TRUE][2]

\* HVAC_TO_KUMO_MODE = {v: k for k, v in KUMO_TO_HVAC_MODE.items()} and its
\* .get(hvac_mode): of the items with the same value the last one stays
HvacToKumo(hvac_mode) ==
    LET I == {i \in 1..Len(KUMO_TO_HVAC_MODE) :
                KUMO_TO_HVAC_MODE[i][2] = hvac_mode}
    IN  IF I = {} THEN None
        ELSE Some(KUMO_TO_HVAC_MODE[CHOOSE i \in I : \A j \in I : j <= i][1])

\* dict.get(k, default)
GetOr(dict, k, default) == IF k \in DOMAIN dict THEN dict[k] ELSE default

Ret(v) == [raised |-> FALSE, value |-> v]
AttributeError == [raised |-> TRUE, value |-> None]

\* self.device.zone_data.get("adapter", {}): <<the adapter>>, or None for a
\* zone that has the key with a null adapter
ViewAdapter(e) == GetOr(ZoneData(e), "adapter", Some(EmptyDict))

\* device_data.get(f, adapter.get(f, default)): the detail's value when the
\* detail has the key, else the adapter's, else the default; adapter.get is
\* evaluated first and raises on a null adapter
DetailFirst(e, f, default) ==
    IF ViewAdapter(e) = None THEN AttributeError
    ELSE Ret(GetOr(DeviceData(e), f, GetOr(ViewAdapter(e)[1], f, default)))

\* adapter.get(f, device_data.get(f)): the adapter's value when the adapter
\* has the key, else the detail's
AdapterFirst(e, f) ==
    IF ViewAdapter(e) = None THEN AttributeError
    ELSE Ret(GetOr(ViewAdapter(e)[1], f, GetOr(DeviceData(e), f, None)))

\* Mutant: the Fahrenheit value is truncated, not rounded.
CelsiusToUserUnitTruncated(celsius_temp) ==
    IF celsius_temp = None THEN None
    ELSE IF temperature_unit = FAHRENHEIT
      THEN Some(((18 * celsius_temp[1]) \div 10) + 32)
    ELSE celsius_temp

\* _celsius_to_user_unit, for whole degrees Celsius: round(c * 9 / 5 + 32)
\* (c * 9 / 5 is never half-way between two integers)
CelsiusToUserUnit(celsius_temp) ==
    IF celsius_temp = None THEN None
    ELSE IF temperature_unit = FAHRENHEIT
      THEN Some(((18 * celsius_temp[1] + 5) \div 10) + 32)
    ELSE celsius_temp

\* _user_unit_to_celsius: (temp - 32) * 5 / 9 is a true division, its result a
\* float; the float is modelled by the exact fraction [num, den], not reduced
UserUnitToCelsius(temp) ==
    IF temp = None THEN None
    ELSE IF temperature_unit = FAHRENHEIT
      THEN Some([num |-> (temp[1] - 32) * 5, den |-> 9])
    ELSE temp

\* KumoCloudDevice.available: adapter.get("connected", False) is evaluated
\* first and raises on a null adapter
DeviceAvailable(e) ==
    IF ViewAdapter(e) = None THEN AttributeError
    ELSE Ret(GetOr(DeviceData(e), "connected",
                   GetOr(ViewAdapter(e)[1], "connected", Some(FALSE))))

\* KumoCloudClimate.available:
\* self.device.available and self.coordinator.last_update_success
EntityAvailable(e) ==
    IF DeviceAvailable(e).raised THEN AttributeError
    ELSE IF DeviceAvailable(e).value = Some(TRUE) THEN Ret(Some(last_update_success))
    ELSE DeviceAvailable(e)

\* KumoCloudClimate.current_temperature
CurrentTemperature(e) ==
    IF ViewAdapter(e) = None THEN AttributeError
    ELSE Ret(CelsiusToUserUnit(GetOr(ViewAdapter(e)[1], "roomTemp", None)))

\* the decision of hvac_mode
ModeFor(operation_mode, power) ==
    IF power = Some(0) THEN HVAC_OFF ELSE KumoToHvac(operation_mode)

\* KumoCloudClimate.hvac_mode
HvacMode(e) ==
    LET operation_mode == DetailFirst(e, "operationMode", Some(OPERATION_MODE_OFF))
        power == DetailFirst(e, "power", Some(0))
    IN  IF operation_mode.raised THEN AttributeError
        ELSE Ret(Some(ModeFor(operation_mode.value, power.value)))

\* Mutant: the action is decided from the operation mode alone.
ActionForModeOnly(operation_mode, power, current_temp, sp_heat, sp_cool) ==
    IF KumoToHvac(operation_mode) = HVAC_OFF THEN ACTION_OFF
    ELSE IF operation_mode \in {Some(OPERATION_MODE_HEAT), Some(OPERATION_MODE_AUTO_HEAT)}
      THEN ACTION_HEATING
    ELSE IF operation_mode \in {Some(OPERATION_MODE_COOL), Some(OPERATION_MODE_AUTO_COOL)}
      THEN ACTION_COOLING
    ELSE IF operation_mode = Some(OPERATION_MODE_DRY) THEN ACTION_DRYING
    ELSE IF operation_mode = Some(OPERATION_MODE_VENT) THEN ACTION_FAN
    ELSE ACTION_IDLE

\* the decision of hvac_action
ActionFor(operation_mode, power, current_temp, sp_heat, sp_cool) ==
    IF ModeFor(operation_mode, power) = HVAC_OFF THEN ACTION_OFF
    ELSE IF power = Some(0) THEN ACTION_OFF
    ELSE IF operation_mode \in {Some(OPERATION_MODE_HEAT), Some(OPERATION_MODE_AUTO_HEAT)}
      THEN ACTION_HEATING
    ELSE IF operation_mode \in {Some(OPERATION_MODE_COOL), Some(OPERATION_MODE_AUTO_COOL)}
      THEN ACTION_COOLING
    ELSE IF operation_mode = Some(OPERATION_MODE_DRY) THEN ACTION_DRYING
    ELSE IF operation_mode = Some(OPERATION_MODE_VENT) THEN ACTION_FAN
    ELSE IF operation_mode \in {Some(OPERATION_MODE_AUTO), Some(OPERATION_MODE_AUTO_COOL),
                                Some(OPERATION_MODE_AUTO_HEAT)}
      THEN IF current_temp # None /\ sp_heat # None /\ sp_cool # None
             THEN IF current_temp[1] >= sp_cool[1] THEN ACTION_COOLING
                  ELSE IF current_temp[1] <= sp_heat[1] THEN ACTION_HEATING
                  ELSE ACTION_IDLE
             ELSE ACTION_IDLE
    ELSE ACTION_IDLE

\* KumoCloudClimate.hvac_action
HvacAction(e) ==
    IF ViewAdapter(e) = None THEN AttributeError
    ELSE Ret(Some(ActionFor(DetailFirst(e, "operationMode", Some(OPERATION_MODE_OFF)).value,
                            DetailFirst(e, "power", Some(0)).value,
                            CurrentTemperature(e).value,
                            AdapterFirst(e, "spHeat").value,
                            AdapterFirst(e, "spCool").value)))

\* Mutant: in HEAT_COOL the single target is the cool setpoint.
TargetTemperatureInAuto(e) ==
    LET hvac_mode == HvacMode(e) IN
    IF ViewAdapter(e) = None THEN AttributeError
    ELSE IF hvac_mode.value \in {Some(HVAC_COOL), Some(HVAC_HEAT_COOL)}
      THEN Ret(CelsiusToUserUnit(DetailFirst(e, "spCool", None).value))
    ELSE IF hvac_mode.value = Some(HVAC_HEAT)
      THEN Ret(CelsiusToUserUnit(DetailFirst(e, "spHeat", None).value))
    ELSE Ret(None)

\* KumoCloudClimate.target_temperature
TargetTemperature(e) ==
    LET hvac_mode == HvacMode(e) IN
    IF ViewAdapter(e) = None THEN AttributeError
    ELSE IF hvac_mode.value = Some(HVAC_COOL)
      THEN Ret(CelsiusToUserUnit(DetailFirst(e, "spCool", None).value))
    ELSE IF hvac_mode.value = Some(HVAC_HEAT)
      THEN Ret(CelsiusToUserUnit(DetailFirst(e, "spHeat", None).value))
    ELSE Ret(None)

\* KumoCloudClimate.target_temperature_low
TargetTemperatureLow(e) ==
    LET hvac_mode == HvacMode(e) IN
    IF hvac_mode.raised THEN AttributeError
    ELSE IF hvac_mode.value # Some(HVAC_HEAT_COOL) THEN Ret(None)
    ELSE Ret(CelsiusToUserUnit(DetailFirst(e, "spHeat", None).value))

\* KumoCloudClimate.target_temperature_high
TargetTemperatureHigh(e) ==
    LET hvac_mode == HvacMode(e) IN
    IF hvac_mode.raised THEN AttributeError
    ELSE IF hvac_mode.value # Some(HVAC_HEAT_COOL) THEN Ret(None)
    ELSE Ret(CelsiusToUserUnit(DetailFirst(e, "spCool", None).value))

\* KumoCloudClimate.fan_mode and swing_mode
FanMode(e) == DetailFirst(e, "fanSpeed", None)
SwingMode(e) == DetailFirst(e, "airDirection", None)

\* KumoCloudHumiditySensor.native_value, of the sensor of this device view
HumidityValue(e) == DetailFirst(e, "humidity", None)

\* KumoCloudClimate.min_temp and max_temp: `x or 16.0` gives 16.0 for x = 0
Min2(a, b) == IF a <= b THEN a ELSE b
Max2(a, b) == IF a >= b THEN a ELSE b

MinTemp(e) ==
    LET profile == ProfileData(e)
        min_setpoints == IF profile = << >> THEN EmptyDict
                         ELSE GetOr(profile[1], "minimumSetPoints", EmptyDict)
        celsius_min == IF profile = << >> THEN 16
                       ELSE Min2(GetOr(min_setpoints, "heat", 16),
                                 GetOr(min_setpoints, "cool", 16))
        user == CelsiusToUserUnit(Some(celsius_min))[1]
    IN  IF user = 0 THEN 16 ELSE user

MaxTemp(e) ==
    LET profile == ProfileData(e)
        max_setpoints == IF profile = << >> THEN EmptyDict
                         ELSE GetOr(profile[1], "maximumSetPoints", EmptyDict)
        celsius_max == IF profile = << >> THEN 30
                       ELSE Max2(GetOr(max_setpoints, "heat", 30),
                                 GetOr(max_setpoints, "cool", 30))
        user == CelsiusToUserUnit(Some(celsius_max))[1]
    IN  IF user = 0 THEN 30 ELSE user

\* the fan speeds of const.py
FAN_SPEED_AUTO == "auto"
FAN_SPEED_LOW == "low"
FAN_SPEED_MEDIUM == "medium"
FAN_SPEED_HIGH == "high"
FAN_SPEED_POWERFUL == "powerful"

\* KumoCloudClimate.hvac_modes: a list; profile[0] of a non-empty profile list
HvacModes(e) ==
    LET profile == ProfileData(e) IN
    IF profile = << >> THEN << HVAC_OFF >>
    ELSE LET profile_data == profile[1]
             heat == GetOr(profile_data, "hasModeHeat", FALSE)
         IN  << HVAC_OFF >>
             \o (IF heat THEN << HVAC_HEAT >> ELSE << >>)
             \o << HVAC_COOL >>
             \o (IF GetOr(profile_data, "hasModeDry", FALSE)
                   THEN << HVAC_DRY >> ELSE << >>)
             \o (IF GetOr(profile_data, "hasModeVent", FALSE)
                   THEN << HVAC_FAN_ONLY >> ELSE << >>)
             \o (IF heat THEN << HVAC_HEAT_COOL >> ELSE << >>)

\* KumoCloudClimate.fan_modes: <<the list>>, or None
FanModesAutoLast(e) ==
    LET profile == ProfileData(e) IN
    IF profile = << >> THEN None
    ELSE LET profile_data == profile[1]
             num_fan_speeds == GetOr(profile_data, "numberOfFanSpeeds", 0)
         IN  IF num_fan_speeds = 0 THEN None
             ELSE Some((IF num_fan_speeds >= 1 THEN << FAN_SPEED_LOW >> ELSE << >>)
                       \o (IF num_fan_speeds >= 2 THEN << FAN_SPEED_MEDIUM >> ELSE << >>)
                       \o (IF num_fan_speeds >= 3 THEN << FAN_SPEED_HIGH >> ELSE << >>)
                       \o (IF num_fan_speeds >= 4 THEN << FAN_SPEED_POWERFUL >> ELSE << >>)
                       \o (IF GetOr(profile_data, "hasFanSpeedAuto", FALSE)
                             THEN << FAN_SPEED_AUTO >> ELSE << >>))
FanModes(e) ==
    LET profile == ProfileData(e) IN
    IF profile = << >> THEN None
    ELSE LET profile_data == profile[1]
             num_fan_speeds == GetOr(profile_data, "numberOfFanSpeeds", 0)
         IN  IF num_fan_speeds = 0 THEN None
             ELSE Some((IF GetOr(profile_data, "hasFanSpeedAuto", FALSE)
                          THEN << FAN_SPEED_AUTO >> ELSE << >>)
                       \o (IF num_fan_speeds >= 1 THEN << FAN_SPEED_LOW >> ELSE << >>)
                       \o (IF num_fan_speeds >= 2 THEN << FAN_SPEED_MEDIUM >> ELSE << >>)
                       \o (IF num_fan_speeds >= 3 THEN << FAN_SPEED_HIGH >> ELSE << >>)
                       \o (IF num_fan_speeds >= 4 THEN << FAN_SPEED_POWERFUL >> ELSE << >>))

\* what Home Assistant reads when it writes the state of the entity: each
\* property of the entity, as [raised, value]
EntityState(e) ==
    [hvac_mode |-> HvacMode(e),
     hvac_modes |-> HvacModes(e),
     fan_modes |-> FanModes(e),
     min_temp |-> MinTemp(e),
     max_temp |-> MaxTemp(e),
     hvac_action |-> HvacAction(e),
     current_temperature |-> CurrentTemperature(e),
     target_temperature |-> TargetTemperature(e),
     target_temperature_low |-> TargetTemperatureLow(e),
     target_temperature_high |-> TargetTemperatureHigh(e),
     fan_mode |-> FanMode(e),
     swing_mode |-> SwingMode(e)]

\* Home Assistant writes the state of the entity: it reads the properties.
WriteState(e) ==
    /\ e \in entities
    /\ ha_state' = DictSet(ha_state, e, EntityState(e))
    /\ UNCHANGED <<zones, devices, device_profiles, entities, setup_done, humidity_sensors,
                   syncVars, base, last_write,
                   data, cmdVars, temperature_unit, sent,
                   cloudVars, sensors, watched>>

\* Home Assistant writes the state of the humidity sensor of the device: it
\* reads native_value.
WriteHumidityState(e) ==
    /\ e \in DOMAIN humidity_sensors
    /\ humidity_sensors' = [humidity_sensors EXCEPT ![e] = Some(HumidityValue(e))]
    /\ UNCHANGED <<zones, devices, device_profiles, entities, setup_done,
                   syncVars, base, last_write,
                   data, cmdVars, climateVars, sensors, watched>>

\* self.async_update_listeners(): every entity listening to the coordinator
\* writes its state from the data just stored
UpdateListeners == [e \in entities |-> EntityState(e)]

\* the humidity sensors created at setup are among the listeners
HumidityListeners(created) ==
    [e \in created |-> Some(HumidityValue(e))]

\* self.async_write_ha_state() at the end of _send_command_and_refresh: once
\* device.send_command has returned, the entity whose service call awaited it
\* writes its state; nothing is written for another caller of send_command
AsyncWriteHaState(caller, states) ==
    IF caller = None THEN states
    ELSE DictSet(states, caller[1], EntityState(caller[1]))

(***************************************************************************)
(* A command: KumoCloudDevice.send_command and async_refresh_device        *)
(***************************************************************************)
\* the locals of the latest call of send_command
ThisCmd == [pc |-> cmdPc, serial |-> cmdSerial, caller |-> cmdCaller]

\* device.send_command(commands) is called on the device of an entity by a
\* caller that writes no state afterwards. The method takes no lock:
\* the call issues its api.send_command whatever other calls are in flight;
\* the calls in flight are capped at MaxCalls.
CmdStartStep(e) ==
    /\ CallsInFlight < MaxCalls
    /\ e \in entities
    /\ earlier_cmds' = IF cmdPc \in CmdInFlight
                         THEN Append(earlier_cmds, ThisCmd)
                         ELSE earlier_cmds
    /\ cmdPc' = "SENDING"
    /\ cmdSerial' = e.device_serial
    /\ cmdCaller' = None
    /\ cmdError' = "none"
    /\ last_detail' = EmptyDict
    /\ cmdLog' = << "send_command" >>
    /\ UNCHANGED <<zones, devices, device_profiles, entities, setup_done, humidity_sensors,
                   syncVars, base, last_write, data>>
CmdStart(e) == CmdStartStep(e) /\ UNCHANGED viewVars

\* Mutant: the refresh is started without the settle delay.
CmdSendOkNoSleep ==
    /\ cmdPc = "SENDING"
    /\ cmdPc' = "REFRESHING"
    /\ cmdLog' = cmdLog \o << "ack", "get_device_details" >>
    /\ UNCHANGED <<zones, devices, device_profiles, entities, setup_done, humidity_sensors,
                   syncVars, base, last_write,
                   data, cmdSerial, cmdCaller, cmdError,
                   last_detail, earlier_cmds, viewVars>>

\* api.send_command answers: the coroutine goes on to asyncio.sleep(1).
CmdSendOkStep ==
    /\ cmdPc = "SENDING"
    /\ cmdPc' = "SLEEPING"
    /\ cmdLog' = Append(cmdLog, "ack")
    /\ UNCHANGED <<zones, devices, device_profiles, entities, setup_done, humidity_sensors,
                   syncVars, base, last_write,
                   data, cmdSerial, cmdCaller, cmdError,
                   last_detail, earlier_cmds>>
CmdSendOk == CmdSendOkStep /\ UNCHANGED viewVars

\* Mutant: the error of api.send_command is logged and not raised again.
CmdSendFailSwallowed(kind) ==
    /\ cmdPc = "SENDING"
    /\ cmdPc' = "RETURNED"
    /\ cmdLog' = Append(cmdLog, kind)
    /\ UNCHANGED <<zones, devices, device_profiles, entities, setup_done, humidity_sensors,
                   syncVars, base, last_write,
                   data, cmdSerial, cmdCaller, cmdError,
                   last_detail, earlier_cmds, viewVars>>

\* api.send_command raises: logged and raised again.
CmdSendFail(kind) ==
    /\ cmdPc = "SENDING"
    /\ cmdPc' = "RAISED"
    /\ cmdError' = kind
    /\ cmdLog' = Append(cmdLog, kind)
    /\ UNCHANGED <<zones, devices, device_profiles, entities, setup_done, humidity_sensors,
                   syncVars, base, last_write, data, cmdSerial, cmdCaller,
                   last_detail, earlier_cmds, viewVars>>

\* The sleep is over: async_refresh_device issues get_device_details.
CmdSleepDone ==
    /\ cmdPc = "SLEEPING"
    /\ cmdPc' = "REFRESHING"
    /\ cmdLog' = cmdLog \o << "slept", "get_device_details" >>
    /\ UNCHANGED <<zones, devices, device_profiles, entities, setup_done, humidity_sensors,
                   syncVars, base, last_write,
                   data, cmdSerial, cmdCaller, cmdError,
                   last_detail, earlier_cmds, viewVars>>

\* Mutant: the refresh publishes the data the way async_set_updated_data does,
\* which marks the last update as successful.
RefreshOkSetsUpdated(detail) ==
    /\ cmdPc = "REFRESHING"
    /\ cmdPc' = "RETURNED"
    /\ LET new == RefreshedSnapshot(snap, cmdSerial, detail) IN
         /\ zones' = new[1]
         /\ devices' = new[2]
         /\ device_profiles' = new[3]
    /\ base' = RefreshedSnapshot(base, cmdSerial, detail)
    /\ last_write' = "refresh"
    /\ data' = Some(SnapshotDict(zones', devices', device_profiles'))
    /\ cmdLog' = Append(cmdLog, "detail")
    /\ last_detail' = detail
    /\ last_update_success' = TRUE
    /\ UNCHANGED <<entities, setup_done, syncPc, loc_zones, loc_devices,
                   loc_profiles, zi, syncError, sync_answer, getZonesCalls,
                   refreshCalls, awaited, earlier_cycles, cmdSerial, cmdCaller, cmdError,
                   earlier_cmds, sent, cloudVars, sensors, watched>>
    /\ UNCHANGED temperature_unit
    /\ \E caller \in {cmdCaller} :
          ha_state' = AsyncWriteHaState(caller, UpdateListeners)'
    /\ \E created \in {DOMAIN humidity_sensors} :
          humidity_sensors' = HumidityListeners(created)'

\* get_device_details answers: the detail is stored, the adapter patched,
\* coordinator.data assigned and the listeners updated; send_command returns
\* and the entity that awaited it writes its state, with no await in between.
RefreshOkStep(detail) ==
    /\ cmdPc = "REFRESHING"
    /\ cmdPc' = "RETURNED"
    /\ LET new == RefreshedSnapshot(snap, cmdSerial, detail) IN
         /\ zones' = new[1]
         /\ devices' = new[2]
         /\ device_profiles' = new[3]
    /\ base' = RefreshedSnapshot(base, cmdSerial, detail)
    /\ last_write' = "refresh"
    /\ data' = Some(SnapshotDict(zones', devices', device_profiles'))
    /\ cmdLog' = Append(cmdLog, "detail")
    /\ last_detail' = detail
    /\ UNCHANGED <<entities, setup_done, syncVars, cmdSerial, cmdCaller, cmdError,
                   earlier_cmds>>
    /\ UNCHANGED temperature_unit
    /\ \E caller \in {cmdCaller} :
          ha_state' = AsyncWriteHaState(caller, UpdateListeners)'
    /\ \E created \in {DOMAIN humidity_sensors} :
          humidity_sensors' = HumidityListeners(created)'
RefreshOk(detail) == RefreshOkStep(detail) /\ UNCHANGED <<sent, cloudVars, sensors, watched>>

\* Mutant: the error of get_device_details reaches the caller.
RefreshFailRaises(kind) ==
    /\ cmdPc = "REFRESHING"
    /\ cmdPc' = "RAISED"
    /\ cmdError' = kind
    /\ cmdLog' = Append(cmdLog, "detail_error")
    /\ UNCHANGED <<zones, devices, device_profiles, entities, setup_done, humidity_sensors,
                   syncVars, base, last_write, data, cmdSerial, cmdCaller,
                   last_detail, earlier_cmds, viewVars>>

\* Mutant: a failed refresh drops the cached detail of the device.
RefreshFailInvalidates(kind) ==
    /\ cmdPc = "REFRESHING"
    /\ cmdPc' = "RETURNED"
    /\ devices' = [s \in DOMAIN devices \ {cmdSerial} |-> devices[s]]
    /\ cmdLog' = Append(cmdLog, "detail_error")
    /\ UNCHANGED <<zones, device_profiles, entities, setup_done, humidity_sensors,
                   syncVars, base, last_write,
                   data, cmdSerial, cmdCaller, cmdError,
                   last_detail, earlier_cmds,
                   temperature_unit, sent, cloudVars, sensors, watched>>
    /\ \E caller \in {cmdCaller} :
          ha_state' = IF caller = None THEN ha_state
                      ELSE DictSet(ha_state, caller[1], EntityState(caller[1])')

\* get_device_details raises: `except Exception` logs a warning;
\* send_command returns and the entity that awaited it writes its state.
RefreshFail(kind) ==
    /\ cmdPc = "REFRESHING"
    /\ cmdPc' = "RETURNED"
    /\ cmdLog' = Append(cmdLog, "detail_error")
    /\ ha_state' = AsyncWriteHaState(cmdCaller, ha_state)
    /\ UNCHANGED <<zones, devices, device_profiles, entities, setup_done, humidity_sensors,
                   syncVars, base, last_write,
                   data, cmdSerial, cmdCaller, cmdError,
                   last_detail, earlier_cmds,
                   temperature_unit, sent, cloudVars, sensors, watched>>

\* _send_command_and_refresh(commands) of the entity, up to the await of
\* api.send_command in device.send_command. The call goes on with the answer
\* (CmdSendOk, CmdSendFail), the sleep (CmdSleepDone) and the refresh
\* (RefreshOk, RefreshFail), whose step ends with the entity's write.
SendCommandAndRefresh(e) ==
    /\ CallsInFlight < MaxCalls
    /\ earlier_cmds' = IF cmdPc \in CmdInFlight
                         THEN Append(earlier_cmds, ThisCmd)
                         ELSE earlier_cmds
    /\ cmdPc' = "SENDING"
    /\ cmdSerial' = e.device_serial
    /\ cmdCaller' = Some(e)
    /\ cmdError' = "none"
    /\ last_detail' = EmptyDict
    /\ cmdLog' = << "send_command" >>

\* A service call of the entity: its commands are built (or building them
\* raises) and, when there are commands, passed to _send_command_and_refresh.
ServiceCall(e, service, arg, commands) ==
    /\ e \in entities
    /\ sent' = [service |-> service, arg |-> arg,
                raised |-> commands.raised, commands |-> commands.value]
    /\ IF commands.value # None
         THEN SendCommandAndRefresh(e)
         ELSE UNCHANGED cmdVars
    /\ UNCHANGED <<zones, devices, device_profiles, entities, setup_done, humidity_sensors,
                   syncVars, base, last_write,
                   data, temperature_unit, ha_state,
                   cloudVars, sensors, watched>>

\* the commands async_set_hvac_mode builds: [raised, value], value None when
\* no command is sent
SetHvacModeCommands(e, hvac_mode) ==
    IF hvac_mode = HVAC_OFF
      THEN Ret(Some([operationMode |-> Some(OPERATION_MODE_OFF)]))
    ELSE IF HvacToKumo(hvac_mode) = None THEN Ret(None)
    ELSE IF ViewAdapter(e) = None THEN AttributeError
    ELSE LET sp_cool == DetailFirst(e, "spCool", None).value
             sp_heat == DetailFirst(e, "spHeat", None).value
             c1 == [operationMode |-> HvacToKumo(hvac_mode)]
             c2 == IF sp_cool # None THEN DictSet(c1, "spCool", sp_cool) ELSE c1
             c3 == IF sp_heat # None THEN DictSet(c2, "spHeat", sp_heat) ELSE c2
         IN  Ret(Some(c3))

\* The service call climate.set_hvac_mode.
AsyncSetHvacMode(e, hvac_mode) ==
    ServiceCall(e, "set_hvac_mode", hvac_mode, SetHvacModeCommands(e, hvac_mode))

\* the commands async_set_temperature builds: [raised, value], value None
\* when the dict stays empty and no command is sent
SetTemperatureCommandsDropsOther(e, kwargs) ==
    LET hvac_mode == HvacMode(e)
        target_temp_celsius == UserUnitToCelsius(kwargs.temperature)
        target_temp_low_celsius == UserUnitToCelsius(kwargs.target_temp_low)
        target_temp_high_celsius == UserUnitToCelsius(kwargs.target_temp_high)
    IN  IF hvac_mode.raised THEN AttributeError
        ELSE IF hvac_mode.value = Some(HVAC_COOL) /\ target_temp_celsius # None
          THEN Ret(Some([spCool |-> target_temp_celsius]))
        ELSE IF hvac_mode.value = Some(HVAC_HEAT) /\ target_temp_celsius # None
          THEN Ret(Some([spHeat |-> target_temp_celsius]))
        ELSE IF hvac_mode.value = Some(HVAC_HEAT_COOL)
          THEN LET c1 == IF target_temp_low_celsius # None
                           THEN [spHeat |-> target_temp_low_celsius]
                           ELSE EmptyDict
                   c2 == IF target_temp_high_celsius # None
                           THEN DictSet(c1, "spCool", target_temp_high_celsius)
                           ELSE c1
               IN  IF c2 = EmptyDict THEN Ret(None) ELSE Ret(Some(c2))
        ELSE Ret(None)

\* Mutant: send_command is called with the dict as it is, empty or not.
SetTemperatureCommandsSendsEmpty(e, kwargs) ==
    LET hvac_mode == HvacMode(e) IN
    IF hvac_mode.raised THEN AttributeError
    ELSE IF hvac_mode.value = Some(HVAC_HEAT_COOL)
      THEN LET c1 == IF kwargs.target_temp_low # None
                       THEN [spHeat |-> UserUnitToCelsius(kwargs.target_temp_low)]
                       ELSE EmptyDict
           IN  Ret(Some(IF kwargs.target_temp_high # None
                          THEN DictSet(c1, "spCool",
                                       UserUnitToCelsius(kwargs.target_temp_high))
                          ELSE c1))
    ELSE IF hvac_mode.value = Some(HVAC_COOL) /\ kwargs.temperature # None
      THEN Ret(Some([spCool |-> UserUnitToCelsius(kwargs.temperature)]))
    ELSE IF hvac_mode.value = Some(HVAC_HEAT) /\ kwargs.temperature # None
      THEN Ret(Some([spHeat |-> UserUnitToCelsius(kwargs.temperature)]))
    ELSE Ret(Some(EmptyDict))

SetTemperatureCommands(e, kwargs) ==
    LET hvac_mode == HvacMode(e)
        target_temp_celsius == UserUnitToCelsius(kwargs.temperature)
        target_temp_low_celsius == UserUnitToCelsius(kwargs.target_temp_low)
        target_temp_high_celsius == UserUnitToCelsius(kwargs.target_temp_high)
    IN  IF hvac_mode.raised THEN AttributeError
        ELSE IF hvac_mode.value = Some(HVAC_COOL) /\ target_temp_celsius # None
          THEN LET c1 == [spCool |-> target_temp_celsius]
                   sp_heat == DetailFirst(e, "spHeat", None).value
               IN  Ret(Some(IF sp_heat # None THEN DictSet(c1, "spHeat", sp_heat)
                            ELSE c1))
        ELSE IF hvac_mode.value = Some(HVAC_HEAT) /\ target_temp_celsius # None
          THEN LET c1 == [spHeat |-> target_temp_celsius]
                   sp_cool == DetailFirst(e, "spCool", None).value
               IN  Ret(Some(IF sp_cool # None THEN DictSet(c1, "spCool", sp_cool)
                            ELSE c1))
        ELSE IF hvac_mode.value = Some(HVAC_HEAT_COOL)
          THEN LET c1 == IF target_temp_low_celsius # None
                           THEN [spHeat |-> target_temp_low_celsius]
                           ELSE EmptyDict
                   c2 == IF target_temp_high_celsius # None
                           THEN DictSet(c1, "spCool", target_temp_high_celsius)
                           ELSE c1
               IN  IF c2 = EmptyDict THEN Ret(None) ELSE Ret(Some(c2))
        ELSE Ret(None)

\* The service call climate.set_temperature.
AsyncSetTemperature(e, kwargs) ==
    ServiceCall(e, "set_temperature", kwargs, SetTemperatureCommands(e, kwargs))

\* The service call climate.set_fan_mode: the fan mode is sent as it is given.
AsyncSetFanMode(e, fan_mode) ==
    ServiceCall(e, "set_fan_mode", fan_mode, Ret(Some([fanSpeed |-> Some(fan_mode)])))

\* The service call climate.set_swing_mode: the swing mode is sent as it is
\* given.
AsyncSetSwingMode(e, swing_mode) ==
    ServiceCall(e, "set_swing_mode", swing_mode,
                Ret(Some([airDirection |-> Some(swing_mode)])))

\* the commands async_turn_on builds: the cached operation mode (cool when it
\* is off or unknown) and the cached setpoints
TurnOnCommands(e) ==
    IF ViewAdapter(e) = None THEN AttributeError
    ELSE LET cached == DetailFirst(e, "operationMode", Some(OPERATION_MODE_COOL)).value
             operation_mode == IF cached = Some(OPERATION_MODE_OFF)
                                 THEN Some(OPERATION_MODE_COOL) ELSE cached
             sp_cool == DetailFirst(e, "spCool", None).value
             sp_heat == DetailFirst(e, "spHeat", None).value
             c1 == [operationMode |-> operation_mode]
             c2 == IF sp_cool # None THEN DictSet(c1, "spCool", sp_cool) ELSE c1
             c3 == IF sp_heat # None THEN DictSet(c2, "spHeat", sp_heat) ELSE c2
         IN  Ret(Some(c3))

\* The service call climate.turn_on.
AsyncTurnOn(e) == ServiceCall(e, "turn_on", None, TurnOnCommands(e))

\* The service call climate.turn_off.
AsyncTurnOff(e) ==
    ServiceCall(e, "turn_off", None,
                Ret(Some([operationMode |-> Some(OPERATION_MODE_OFF)])))

\* The same steps in a call of send_command that is not the latest.
thisCmdVars == <<cmdPc, cmdSerial, cmdCaller, cmdError, cmdLog, last_detail>>

\* api.send_command answers to the i-th earlier call.
EarlierCmdSendOk(i) ==
    /\ i \in 1..Len(earlier_cmds)
    /\ earlier_cmds[i].pc = "SENDING"
    /\ earlier_cmds' = [earlier_cmds EXCEPT ![i].pc = "SLEEPING"]
    /\ UNCHANGED <<zones, devices, device_profiles, entities, setup_done, humidity_sensors,
                   syncVars, base, last_write,
                   data, thisCmdVars, viewVars>>

\* api.send_command of the i-th earlier call raises, to the caller of that call.
EarlierCmdSendFail(i) ==
    /\ i \in 1..Len(earlier_cmds)
    /\ earlier_cmds[i].pc = "SENDING"
    /\ earlier_cmds' = Remove(earlier_cmds, i)
    /\ UNCHANGED <<zones, devices, device_profiles, entities, setup_done, humidity_sensors,
                   syncVars, base, last_write,
                   data, thisCmdVars, viewVars>>

\* The sleep of the i-th earlier call is over.
EarlierCmdSleepDone(i) ==
    /\ i \in 1..Len(earlier_cmds)
    /\ earlier_cmds[i].pc = "SLEEPING"
    /\ earlier_cmds' = [earlier_cmds EXCEPT ![i].pc = "REFRESHING"]
    /\ UNCHANGED <<zones, devices, device_profiles, entities, setup_done, humidity_sensors,
                   syncVars, base, last_write,
                   data, thisCmdVars, viewVars>>

\* get_device_details answers to the refresh of the i-th earlier call.
EarlierRefreshOkStep(i, detail) ==
    /\ i \in 1..Len(earlier_cmds)
    /\ earlier_cmds[i].pc = "REFRESHING"
    /\ earlier_cmds' = Remove(earlier_cmds, i)
    /\ LET new == RefreshedSnapshot(snap, earlier_cmds[i].serial, detail) IN
         /\ zones' = new[1]
         /\ devices' = new[2]
         /\ device_profiles' = new[3]
    /\ base' = RefreshedSnapshot(base, earlier_cmds[i].serial, detail)
    /\ last_write' = "refresh"
    /\ data' = Some(SnapshotDict(zones', devices', device_profiles'))
    /\ UNCHANGED <<entities, setup_done, syncVars, thisCmdVars>>
    /\ UNCHANGED temperature_unit
    /\ \E caller \in {earlier_cmds[i].caller} :
          ha_state' = AsyncWriteHaState(caller, UpdateListeners)'
    /\ \E created \in {DOMAIN humidity_sensors} :
          humidity_sensors' = HumidityListeners(created)'
EarlierRefreshOk(i, detail) ==
    EarlierRefreshOkStep(i, detail) /\ UNCHANGED <<sent, cloudVars, sensors, watched>>

\* get_device_details of the refresh of the i-th earlier call raises.
EarlierRefreshFail(i) ==
    /\ i \in 1..Len(earlier_cmds)
    /\ earlier_cmds[i].pc = "REFRESHING"
    /\ earlier_cmds' = Remove(earlier_cmds, i)
    /\ ha_state' = AsyncWriteHaState(earlier_cmds[i].caller, ha_state)
    /\ UNCHANGED <<zones, devices, device_profiles, entities, setup_done, humidity_sensors,
                   syncVars, base, last_write,
                   data, thisCmdVars,
                   temperature_unit, sent, cloudVars, sensors, watched>>

(***************************************************************************)
(* Specifications                                                          *)
(***************************************************************************)
\* The calls of _async_update_data on their own: one is started, or the
\* cloud answers a request of one in flight.
CycleNext ==
    \/ SyncStart
    \/ \E zl \in ZoneAnswers : GetZonesOk(zl)
    \/ \E d \in DetailAnswers, p \in ProfileAnswers : GatherOk(d, p)
    \/ \E k \in ErrorKinds : FetchFail(k)
    \/ RefreshTokenOk
    \/ \E k \in ErrorKinds : RefreshTokenFail(k)
    \/ \E i \in 1..Len(earlier_cycles), zl \in ZoneAnswers : EarlierGetZonesOk(i, zl)
    \/ \E i \in 1..Len(earlier_cycles), d \in DetailAnswers, p \in ProfileAnswers :
          EarlierGatherOk(i, d, p)
    \/ \E i \in 1..Len(earlier_cycles), k \in ErrorKinds : EarlierFetchFail(i, k)
    \/ \E i \in 1..Len(earlier_cycles) : EarlierRefreshTokenOk(i)
    \/ \E i \in 1..Len(earlier_cycles) : EarlierRefreshTokenFail(i)

CycleSpec == Init /\ [][CycleNext]_vars

\* The coordinator and the commands together, on a site with one device: the
\* polls show it in zone z1, or show another device in zone z2 and z1 without
\* an adapter; a full sync fetches DetailA and ProfileA for the device.
SiteZoneAnswers ==
    { << ZoneWith("z1", "s1") >>,
      << ZoneNullAdapter("z1"), ZoneWith("z2", "s2") >> }

Next ==
    \/ SyncStart
    \/ \E zl \in SiteZoneAnswers : GetZonesOk(zl)
    \/ GatherOk(DetailA, << ProfileA >>)
    \/ \E k \in ErrorKinds : FetchFail(k)
    \/ RefreshTokenOk
    \/ \E k \in ErrorKinds : RefreshTokenFail(k)
    \/ \E i \in 1..Len(earlier_cycles), zl \in SiteZoneAnswers : EarlierGetZonesOk(i, zl)
    \/ \E i \in 1..Len(earlier_cycles) : EarlierGatherOk(i, DetailA, << ProfileA >>)
    \/ \E i \in 1..Len(earlier_cycles), k \in ErrorKinds : EarlierFetchFail(i, k)
    \/ \E i \in 1..Len(earlier_cycles) : EarlierRefreshTokenOk(i)
    \/ \E i \in 1..Len(earlier_cycles) : EarlierRefreshTokenFail(i)
    \/ \E e \in entities : CmdStart(e)
    \/ CmdSendOk
    \/ \E k \in ErrorKinds : CmdSendFail(k)
    \/ CmdSleepDone
    \/ \E d \in DetailAnswers : RefreshOk(d)
    \/ \E k \in ErrorKinds : RefreshFail(k)
    \/ \E i \in 1..Len(earlier_cmds) : EarlierCmdSendOk(i)
    \/ \E i \in 1..Len(earlier_cmds) : EarlierCmdSendFail(i)
    \/ \E i \in 1..Len(earlier_cmds) : EarlierCmdSleepDone(i)
    \/ \E i \in 1..Len(earlier_cmds), d \in DetailAnswers : EarlierRefreshOk(i, d)
    \/ \E i \in 1..Len(earlier_cmds) : EarlierRefreshFail(i)

Spec == Init /\ [][Next]_vars

(***************************************************************************)
(* One call of _async_update_data followed from its start to its end,      *)
(* whatever other calls start and end meanwhile. The calls in flight are    *)
(* numbered oldest first, the latest call last; a call keeps its place      *)
(* until an older call ends.                                                *)
(***************************************************************************)
\* a call starts: it may be the one to follow, when none is followed
WatchStart ==
    /\ watched' \in (IF watched = 0 THEN {0, Len(earlier_cycles') + 1}
                     ELSE {watched})
    /\ UNCHANGED <<last_update_success, climateVars, sensors>>

\* the call at place p has taken a step
WatchAnswer(p) ==
    LET ended == IF p <= Len(earlier_cycles)
                   THEN Len(earlier_cycles') < Len(earlier_cycles)
                   ELSE syncPc' \notin InFlight
    IN  /\ watched' = IF ~ended THEN watched
                      ELSE IF watched = p THEN 0
                      ELSE IF watched > p THEN watched - 1
                      ELSE watched
        /\ UNCHANGED <<last_update_success, climateVars, sensors>>

\* The cloud answers the request the call at place p is waiting for.
AnswerAt(p) ==
    \/ /\ p = Len(earlier_cycles) + 1
       /\ \/ \E zl \in ZoneAnswers : GetZonesOkStep(zl)
          \/ GatherOkStep(DetailA, << ProfileA >>)
          \/ \E k \in ErrorKinds : FetchFailStep(k)
          \/ RefreshTokenOkStep
          \/ \E k \in ErrorKinds : RefreshTokenFailStep(k)
       /\ WatchAnswer(p)
    \/ /\ p <= Len(earlier_cycles)
       /\ \/ \E zl \in ZoneAnswers : EarlierGetZonesOkStep(p, zl)
          \/ EarlierGatherOkStep(p, DetailA, << ProfileA >>)
          \/ \E k \in ErrorKinds : EarlierFetchFailStep(p, k)
          \/ EarlierRefreshTokenOkStep(p)
          \/ EarlierRefreshTokenFailStep(p)
       /\ WatchAnswer(p)

FairNext ==
    \/ SyncStartStep /\ WatchStart
    \/ \E zl \in ZoneAnswers : GetZonesOkStep(zl) /\ WatchAnswer(Len(earlier_cycles) + 1)
    \/ GatherOkStep(DetailA, << ProfileA >>) /\ WatchAnswer(Len(earlier_cycles) + 1)
    \/ \E k \in ErrorKinds : FetchFailStep(k) /\ WatchAnswer(Len(earlier_cycles) + 1)
    \/ RefreshTokenOkStep /\ WatchAnswer(Len(earlier_cycles) + 1)
    \/ \E k \in ErrorKinds :
          RefreshTokenFailStep(k) /\ WatchAnswer(Len(earlier_cycles) + 1)
    \/ \E i \in 1..Len(earlier_cycles), zl \in ZoneAnswers :
          EarlierGetZonesOkStep(i, zl) /\ WatchAnswer(i)
    \/ \E i \in 1..Len(earlier_cycles) :
          EarlierGatherOkStep(i, DetailA, << ProfileA >>) /\ WatchAnswer(i)
    \/ \E i \in 1..Len(earlier_cycles), k \in ErrorKinds :
          EarlierFetchFailStep(i, k) /\ WatchAnswer(i)
    \/ \E i \in 1..Len(earlier_cycles) : EarlierRefreshTokenOkStep(i) /\ WatchAnswer(i)
    \/ \E i \in 1..Len(earlier_cycles) : EarlierRefreshTokenFailStep(i) /\ WatchAnswer(i)

\* Every request of every call eventually returns.
FairSpec ==
    Init /\ [][FairNext]_vars /\ \A p \in 1..MaxCalls : WF_vars(AnswerAt(p))

(***************************************************************************)
(* The coordinator under Home Assistant's poll loop, which records the     *)
(* outcome of each call in coordinator.last_update_success: True when      *)
(* _async_update_data has returned, False when it has raised.              *)
(***************************************************************************)
Polled ==
    /\ last_update_success' = IF syncPc' = "SUCCESS" THEN TRUE
                              ELSE IF syncPc' = "FAILED" THEN FALSE
                              ELSE last_update_success
    /\ UNCHANGED viewVars

\* an earlier call has taken a step: returned, raised or neither
PolledEarlier(returned) ==
    /\ last_update_success' =
          IF Len(earlier_cycles') < Len(earlier_cycles) THEN returned
          ELSE last_update_success
    /\ UNCHANGED viewVars

PollNext ==
    \/ SyncStartStep /\ Polled
    \/ \E zl \in SiteZoneAnswers : GetZonesOkStep(zl) /\ Polled
    \/ GatherOkStep(DetailA, << ProfileA >>) /\ Polled
    \/ \E k \in ErrorKinds : FetchFailStep(k) /\ Polled
    \/ RefreshTokenOkStep /\ Polled
    \/ \E k \in ErrorKinds : RefreshTokenFailStep(k) /\ Polled
    \/ \E i \in 1..Len(earlier_cycles), zl \in SiteZoneAnswers :
          EarlierGetZonesOkStep(i, zl) /\ PolledEarlier(TRUE)
    \/ \E i \in 1..Len(earlier_cycles) :
          EarlierGatherOkStep(i, DetailA, << ProfileA >>) /\ PolledEarlier(TRUE)
    \/ \E i \in 1..Len(earlier_cycles), k \in ErrorKinds :
          EarlierFetchFailStep(i, k) /\ PolledEarlier(FALSE)
    \/ \E i \in 1..Len(earlier_cycles) :
          EarlierRefreshTokenOkStep(i) /\ PolledEarlier(FALSE)
    \/ \E i \in 1..Len(earlier_cycles) :
          EarlierRefreshTokenFailStep(i) /\ PolledEarlier(FALSE)
    \/ \E e \in entities : CmdStart(e)
    \/ CmdSendOk
    \/ \E k \in ErrorKinds : CmdSendFail(k)
    \/ CmdSleepDone
    \/ \E d \in DetailAnswers : RefreshOk(d)
    \/ \E k \in ErrorKinds : RefreshFail(k)
    \/ \E i \in 1..Len(earlier_cmds) : EarlierCmdSendOk(i)
    \/ \E i \in 1..Len(earlier_cmds) : EarlierCmdSendFail(i)
    \/ \E i \in 1..Len(earlier_cmds) : EarlierCmdSleepDone(i)
    \/ \E i \in 1..Len(earlier_cmds), d \in DetailAnswers : EarlierRefreshOk(i, d)
    \/ \E i \in 1..Len(earlier_cmds) : EarlierRefreshFail(i)

PollSpec == Init /\ [][PollNext]_vars

(***************************************************************************)
(* The commands on their own, after the first refresh of setup has stored  *)
(* any of the answers of the cloud and the platforms have created the      *)
(* entities: the calls of send_command and their targeted refreshes.       *)
(***************************************************************************)
DeviceInit ==
    \E zl \in ZoneAnswers, dv \in [Serials -> DetailAnswers],
       pf \in [Serials -> ProfileAnswers] :
        LET fetched == {e.device_serial : e \in EntitiesOf(zl)} IN
        /\ zones = zl
        /\ devices = [s \in fetched |-> dv[s]]
        /\ device_profiles = [s \in fetched |-> pf[s]]
        /\ entities = EntitiesOf(zl)
        /\ setup_done = TRUE
        /\ syncPc = "SUCCESS"
        /\ loc_zones = zones
        /\ loc_devices = devices
        /\ loc_profiles = device_profiles
        /\ zi = 0
        /\ syncError = "none"
        /\ sync_answer = "ok"
        /\ getZonesCalls = 1
        /\ refreshCalls = 0
        /\ awaited = {}
        /\ earlier_cycles = << >>
        /\ earlier_cmds = << >>
        /\ last_update_success = TRUE
        /\ base = snap
        /\ last_write = "sync"
        /\ data = None
        /\ cmdPc = "idle"
        /\ cmdSerial = "none"
        /\ cmdCaller = None
        /\ cmdError = "none"
        /\ cmdLog = << >>
        /\ last_detail = EmptyDict
        /\ temperature_unit = CELSIUS
        /\ ha_state = EmptyDict
        /\ sent = EmptyDict
        /\ sensors = {}
        /\ humidity_sensors = HumiditySensorsOf(zl)
        /\ watched = 0
        /\ NoCloud

DeviceNext ==
    \/ \E e \in entities : CmdStart(e)
    \/ \E e \in entities : AsyncTurnOff(e)
    \/ CmdSendOk
    \/ \E k \in ErrorKinds : CmdSendFail(k)
    \/ CmdSleepDone
    \/ \E d \in DetailAnswers : RefreshOk(d)
    \/ \E k \in ErrorKinds : RefreshFail(k)
    \/ \E i \in 1..Len(earlier_cmds) : EarlierCmdSendOk(i)
    \/ \E i \in 1..Len(earlier_cmds) : EarlierCmdSendFail(i)
    \/ \E i \in 1..Len(earlier_cmds) : EarlierCmdSleepDone(i)
    \/ \E i \in 1..Len(earlier_cmds), d \in DetailAnswers : EarlierRefreshOk(i, d)
    \/ \E i \in 1..Len(earlier_cmds) : EarlierRefreshFail(i)

DeviceSpec == DeviceInit /\ [][DeviceNext]_vars

(***************************************************************************)
(* The setpoint sensors of sensor.py: async_setup_entry creates four per   *)
(* device whose profile carries minimumSetPoints, and each reads its limit *)
(* once, in its constructor.                                               *)
(***************************************************************************)
\* a profile with other limits, and without maximumSetPoints
ProfileB ==
    [numberOfFanSpeeds |-> 5, minimumSetPoints |-> [heat |-> 12, cool |-> 18]]
SensorProfileAnswers == ProfileAnswers \cup { << ProfileB >> }

\* the site has one device
SensorZoneAnswers == { << ZoneWith("z1", "s1") >> }

\* _get_setpoint_value of the sensor of this device, limit and mode
GetSetpointValue(e, limit, mode) ==
    LET profile == ProfileData(e) IN
    IF profile = << >> THEN None
    ELSE LET set_points ==
                 GetOr(profile[1],
                       IF limit = "min" THEN "minimumSetPoints" ELSE "maximumSetPoints",
                       EmptyDict)
         IN  IF mode \in DOMAIN set_points THEN Some(set_points[mode]) ELSE None

\* the entities async_setup_entry adds, each with what its constructor cached
SetupSensors ==
    { [device |-> e, limit |-> l, mode |-> m,
       cached_value |-> GetSetpointValue(e, l, m)] :
        e \in { d \in EntitiesOf(zones) :
                  /\ ProfileData(d) # << >>
                  /\ GetOr(ProfileData(d)[1], "minimumSetPoints", EmptyDict) # EmptyDict },
        l \in {"min", "max"}, m \in {"cool", "heat"} }

\* Mutant: the sensor reads the profile again on every read.
NativeValueRederived(sensor) ==
    GetSetpointValue(sensor.device, sensor.limit, sensor.mode)

\* native_value
NativeValue(sensor) == sensor.cached_value

\* the sensor platform is set up with the others, after the first refresh
Sensed ==
    /\ sensors' = IF ~setup_done /\ setup_done' THEN SetupSensors' ELSE sensors
    /\ UNCHANGED <<last_update_success, climateVars, watched>>

SensorNext ==
    \/ SyncStartStep /\ Sensed
    \/ \E zl \in SensorZoneAnswers : GetZonesOkStep(zl) /\ Sensed
    \/ \E p \in SensorProfileAnswers : GatherOkStep(DetailA, p) /\ Sensed
    \/ \E k \in ErrorKinds : FetchFailStep(k) /\ Sensed
    \/ RefreshTokenOkStep /\ Sensed
    \/ \E k \in ErrorKinds : RefreshTokenFailStep(k) /\ Sensed
    \/ \E i \in 1..Len(earlier_cycles), zl \in SensorZoneAnswers :
          EarlierGetZonesOkStep(i, zl) /\ Sensed
    \/ \E i \in 1..Len(earlier_cycles), p \in SensorProfileAnswers :
          EarlierGatherOkStep(i, DetailA, p) /\ Sensed
    \/ \E i \in 1..Len(earlier_cycles), k \in ErrorKinds :
          EarlierFetchFailStep(i, k) /\ Sensed
    \/ \E i \in 1..Len(earlier_cycles) : EarlierRefreshTokenOkStep(i) /\ Sensed
    \/ \E i \in 1..Len(earlier_cycles) : EarlierRefreshTokenFailStep(i) /\ Sensed
    \/ \E e \in entities : CmdStart(e)
    \/ CmdSendOk
    \/ \E k \in ErrorKinds : CmdSendFail(k)
    \/ CmdSleepDone
    \/ RefreshOk(DetailB)
    \/ \E k \in ErrorKinds : RefreshFail(k)
    \/ \E i \in 1..Len(earlier_cmds) : EarlierCmdSendOk(i)
    \/ \E i \in 1..Len(earlier_cmds) : EarlierCmdSendFail(i)
    \/ \E i \in 1..Len(earlier_cmds) : EarlierCmdSleepDone(i)
    \/ \E i \in 1..Len(earlier_cmds) : EarlierRefreshOk(i, DetailB)
    \/ \E i \in 1..Len(earlier_cmds) : EarlierRefreshFail(i)

SensorSpec == Init /\ [][SensorNext]_vars

(***************************************************************************)
(* The climate entity on its own: one zone, one device, one entity, and    *)
(* every combination of what the adapter and the detail may carry.         *)
(***************************************************************************)
Merge(d1, d2) ==
    [k \in DOMAIN d1 \cup DOMAIN d2 |-> IF k \in DOMAIN d1 THEN d1[k] ELSE d2[k]]

KumoModes ==
    {OPERATION_MODE_OFF, OPERATION_MODE_COOL, OPERATION_MODE_HEAT,
     OPERATION_MODE_DRY, OPERATION_MODE_VENT, OPERATION_MODE_AUTO,
     OPERATION_MODE_AUTO_COOL, OPERATION_MODE_AUTO_HEAT}

\* details: any operation mode or none, power 0, 1 or none, the other fields
\* all or none
DetailInputs ==
    { Merge(Merge(om, pw), rest) :
        om \in {EmptyDict} \cup {[operationMode |-> Some(m)] : m \in KumoModes},
        pw \in {EmptyDict, [power |-> Some(0)], [power |-> Some(1)]},
        rest \in {EmptyDict,
                  [spCool |-> Some(25), spHeat |-> Some(20), fanSpeed |-> Some("low"),
                   airDirection |-> Some("swing"), humidity |-> Some(50)]} }

\* adapters: a null adapter, or one with a mode or none, power 0, 1, null or
\* none, a room temperature or none, the other fields all or none
AdapterInputs ==
    {None} \cup
    { Some(Merge(Merge(Merge(om, pw), Merge(rt, rest)),
                 [deviceSerial |-> Some("s1"), connected |-> Some(TRUE)])) :
        om \in {EmptyDict, [operationMode |-> Some(OPERATION_MODE_AUTO)]},
        pw \in {EmptyDict, [power |-> Some(0)], [power |-> Some(1)], [power |-> None]},
        rt \in {EmptyDict, [roomTemp |-> Some(17)], [roomTemp |-> Some(24)]},
        rest \in {EmptyDict,
                  [spCool |-> Some(21), spHeat |-> Some(18), fanSpeed |-> Some("auto"),
                   airDirection |-> Some("auto"), humidity |-> Some(45)]} }

HVAC_AUTO == "auto"
HvacModeInputs ==
    {HVAC_OFF, HVAC_COOL, HVAC_HEAT, HVAC_DRY, HVAC_FAN_ONLY, HVAC_HEAT_COOL,
     HVAC_AUTO}

\* the keyword arguments of climate.set_temperature, in the display unit: each
\* of temperature, target_temp_low and target_temp_high given or not
TemperatureInputs ==
    [temperature : {None, Some(75)},
     target_temp_low : {None, Some(66)},
     target_temp_high : {None, Some(77)}]

\* The entity of zone z1 and device s1 after setup. With an adapter, the
\* snapshot is the one a full sync has just stored, and the humidity sensor
\* exists when that adapter carries a humidity; with a null adapter, the
\* zone has lost its adapter in the last full sync, the detail is the one
\* a targeted refresh wrote after a command sent to the device, and the
\* adapter the platforms were set up with carried no humidity.
EntityInit(a, dt, profs) ==
        LET synced == (a # None)
            dev == [s \in {"s1"} |-> dt]
        IN  /\ zones = << [id |-> "z1", name |-> "z1", adapter |-> a] >>
            /\ devices = dev
            /\ device_profiles = IF synced THEN profs ELSE EmptyDict
            /\ entities = {[zone_id |-> "z1", device_serial |-> "s1"]}
            /\ setup_done = TRUE
            /\ syncPc = "SUCCESS"
            /\ loc_zones = zones
            /\ loc_devices = IF synced THEN dev ELSE EmptyDict
            /\ loc_profiles = device_profiles
            /\ zi = 0
            /\ syncError = "none"
            /\ sync_answer = "ok"
            /\ getZonesCalls = 1
            /\ refreshCalls = 0
            /\ awaited = {}
            /\ earlier_cycles = << >>
            /\ earlier_cmds = << >>
            /\ last_update_success = TRUE
            /\ base = snap
            /\ last_write = IF synced THEN "sync" ELSE "refresh"
            /\ data = IF synced THEN None
                      ELSE Some(SnapshotDict(zones, devices, device_profiles))
            /\ cmdPc = IF synced THEN "idle" ELSE "RETURNED"
            /\ cmdSerial = IF synced THEN "none" ELSE "s1"
            /\ cmdCaller = None
            /\ cmdError = "none"
            /\ cmdLog = IF synced THEN << >>
                        ELSE << "send_command", "ack", "slept",
                                "get_device_details", "detail" >>
            /\ last_detail = IF synced THEN EmptyDict ELSE dt
            /\ temperature_unit \in {CELSIUS, FAHRENHEIT}
            /\ ha_state = IF synced THEN EmptyDict
                          ELSE [e \in entities |-> EntityState(e)]
            /\ sent = EmptyDict
            /\ sensors = {}
            /\ humidity_sensors = IF synced THEN HumiditySensorsOf(zones)
                                  ELSE EmptyDict
            /\ watched = 0

ClimateInit ==
    \E a \in AdapterInputs, dt \in DetailInputs :
        EntityInit(a, dt, [s \in {"s1"} |-> << ProfileA >>]) /\ NoCloud

\* the state of the entity or of its humidity sensor is written
ClimateNext ==
    \/ \E e \in entities : WriteState(e)
    \/ \E e \in DOMAIN humidity_sensors : WriteHumidityState(e)

ClimateSpec == ClimateInit /\ [][ClimateNext]_vars

(***************************************************************************)
(* The services of the entity: a service is called while no call is in     *)
(* flight and followed to its end, over any cached detail and a null       *)
(* adapter or an adapter of room temperature 24.                           *)
(***************************************************************************)
ServiceAdapterInputs ==
    {None} \cup
    { Some(Merge(Merge(Merge(om, pw), Merge([roomTemp |-> Some(24)], rest)),
                 [deviceSerial |-> Some("s1"), connected |-> Some(TRUE)])) :
        om \in {EmptyDict, [operationMode |-> Some(OPERATION_MODE_AUTO)]},
        pw \in {EmptyDict, [power |-> Some(1)]},
        rest \in {EmptyDict,
                  [spCool |-> Some(21), spHeat |-> Some(18), fanSpeed |-> Some("auto"),
                   airDirection |-> Some("auto"), humidity |-> Some(45)]} }

FanModeInputs == {FAN_SPEED_LOW}
SwingModeInputs == {"swing"}

ServiceInit ==
    \E a \in ServiceAdapterInputs, dt \in DetailInputs :
        EntityInit(a, dt, [s \in {"s1"} |-> << ProfileA >>]) /\ NoCloud

ServiceNext ==
    \/ \E e \in entities : WriteState(e)
    \/ \E e \in entities, m \in HvacModeInputs :
          CallsInFlight = 0 /\ AsyncSetHvacMode(e, m)
    \/ \E e \in entities, kw \in TemperatureInputs :
          CallsInFlight = 0 /\ AsyncSetTemperature(e, kw)
    \/ \E e \in entities, f \in FanModeInputs :
          CallsInFlight = 0 /\ AsyncSetFanMode(e, f)
    \/ \E e \in entities, s \in SwingModeInputs :
          CallsInFlight = 0 /\ AsyncSetSwingMode(e, s)
    \/ \E e \in entities : CallsInFlight = 0 /\ AsyncTurnOn(e)
    \/ \E e \in entities : CallsInFlight = 0 /\ AsyncTurnOff(e)
    \/ CmdSendOk
    \/ CmdSendFail(ConnError)
    \/ CmdSleepDone
    \/ RefreshOk(DetailB)
    \/ \E k \in ErrorKinds : RefreshFail(k)

ServiceSpec == ServiceInit /\ [][ServiceNext]_vars

(***************************************************************************)
(* The entity over the profiles of its device. A full sync stores a        *)
(* profile for every serial it stores a detail for: an empty profile list  *)
(* or a list of one profile with any of the capability keys. No profile is *)
(* stored for the entity whose zone has lost its adapter.                  *)
(***************************************************************************)
MaxFanSpeeds == 4

ProfileDicts ==
    { Merge(Merge(Merge(nf, au), Merge(ht, dr)), vt) :
        nf \in {EmptyDict} \cup {[numberOfFanSpeeds |-> n] : n \in 0..MaxFanSpeeds},
        au \in {EmptyDict, [hasFanSpeedAuto |-> TRUE], [hasFanSpeedAuto |-> FALSE]},
        ht \in {EmptyDict, [hasModeHeat |-> TRUE], [hasModeHeat |-> FALSE]},
        dr \in {[hasModeDry |-> TRUE], [hasModeDry |-> FALSE]},
        vt \in {[hasModeVent |-> TRUE], [hasModeVent |-> FALSE]} }

\* what get_device_profile answered for s1 in the full sync
ProfileInputs ==
    {[s \in {"s1"} |-> << >>]}
        \cup { [s \in {"s1"} |-> << p >>] : p \in ProfileDicts }

\* the entity after a full sync that stored a profile for its device, or the
\* entity of a zone whose adapter the last full sync found null (no profile
\* stored, the detail written by a targeted refresh)
ProfileInit ==
    \/ \E profs \in ProfileInputs :
          EntityInit(Some(AdapterOf("s1")), DetailA, profs) /\ NoCloud
    \/ EntityInit(None, DetailA, EmptyDict) /\ NoCloud

ProfileNext == \E e \in entities : WriteState(e)

ProfileSpec == ProfileInit /\ [][ProfileNext]_vars

(***************************************************************************)
(* A payload issued twice through device.send_command, against a cloud     *)
(* that applies a command by overwriting the fields it names and answers   *)
(* get_device_details with its record of the device.                       *)
(***************************************************************************)
MaxIssues == 2

\* the record of the device after the cloud has applied the commands
Overwrite(record, commands) == Merge(commands, record)

Payloads ==
    { [operationMode |-> Some(OPERATION_MODE_COOL)],
      [operationMode |-> Some(OPERATION_MODE_OFF)],
      [spCool |-> Some(24), spHeat |-> Some(19)],
      [operationMode |-> Some(OPERATION_MODE_HEAT), spHeat |-> Some(22),
       fanSpeed |-> Some("high")] }

\* what the cache holds of device s: devices[s] and the adapter of every zone
\* of that device
CachedState(sn, s) ==
    << Get(sn[2], s),
       [i \in {j \in 1..Len(sn[1]) : HasAdapter(sn[1][j]) /\ SerialOf(sn[1][j]) = s}
          |-> sn[1][i].adapter] >>

CommandInit ==
    \E a \in {None, Some(AdapterOf("s1")),
              Some([deviceSerial |-> Some("s1"), connected |-> Some(TRUE)])},
       dt \in DetailAnswers \cup {EmptyDict},
       record \in DetailAnswers,
       commands \in Payloads :
        /\ EntityInit(a, dt, [s \in {"s1"} |-> << ProfileA >>])
        /\ cloud = [s \in {"s1"} |-> record]
        /\ payload = commands
        /\ issued = 0
        /\ after_first = None

\* device.send_command(payload) is called, for the first time or again
SendCommand(e) ==
    /\ issued < MaxIssues
    /\ CmdStartStep(e)
    /\ issued' = issued + 1
    /\ UNCHANGED <<temperature_unit, ha_state, sent, sensors, watched, cloud, payload, after_first>>

\* the cloud applies the payload and api.send_command answers
CloudApplies ==
    /\ CmdSendOkStep
    /\ cloud' = [cloud EXCEPT ![cmdSerial] = Overwrite(@, payload)]
    /\ UNCHANGED <<temperature_unit, ha_state, sent, sensors, watched, payload, issued, after_first>>

\* get_device_details answers with the cloud's record of the device
CloudDetail ==
    /\ RefreshOkStep(cloud[cmdSerial])
    /\ after_first' =
          IF issued = 1
            THEN Some(CachedState(RefreshedSnapshot(snap, cmdSerial, cloud[cmdSerial]),
                                  cmdSerial))
            ELSE after_first
    /\ UNCHANGED <<sent, sensors, watched, cloud, payload, issued>>

\* The payload is issued in succession: again once the call before has
\* returned.
CommandNext ==
    \/ \E e \in entities : cmdPc \notin CmdInFlight /\ SendCommand(e)
    \/ CloudApplies
    \/ CmdSleepDone
    \/ CloudDetail

CommandSpec == CommandInit /\ [][CommandNext]_vars

(***************************************************************************)
(* Properties                                                              *)
(***************************************************************************)
Last(s) == s[Len(s)]
Events(s) == {s[i] : i \in 1..Len(s)}
AdapterSerials(zs) == {SerialOf(zs[i]) : i \in {j \in 1..Len(zs) : HasAdapter(zs[j])}}

\* the step is an answer to the latest call of send_command: its log grows
CmdAnswered == cmdPc \in CmdInFlight /\ Len(cmdLog') = Len(cmdLog) + 1
\* the step ends the latest call of _async_update_data
CycleEnded == syncPc \in {"GET_ZONES", "GATHER"} /\ syncPc' \in {"SUCCESS", "FAILED"}
\* the step ends the earlier call of _async_update_data at place i
EarlierCycleEnded(i) ==
    /\ earlier_cycles[i].pc \in {"GET_ZONES", "GATHER"}
    /\ earlier_cycles' = Remove(earlier_cycles, i)
\* the step ends the refresh of the earlier call of send_command at place i
EarlierRefreshEnded(i) ==
    /\ earlier_cmds[i].pc = "REFRESHING"
    /\ earlier_cmds' = Remove(earlier_cmds, i)

\* C1: in one full-sync cycle refresh_access_token is called at most once and
\* get_zones at most twice, and a second AuthError of the cycle ends it FAILED
\* (no further refresh, no further retry).
C1Claim ==
    /\ refreshCalls <= 1
    /\ getZonesCalls <= 2
    /\ (sync_answer = AuthError /\ getZonesCalls >= 2 => syncPc = "FAILED")

\* C2: a full-sync cycle that ended in failure, whatever the cause and the
\* request that failed, left zones, devices and device_profiles as they would
\* be without the cycle (base: the snapshot at the start of the cycle, carried
\* through the targeted refreshes that ran meanwhile).
C2Theorem == syncPc = "FAILED" => snap = base

C2Witness ==
    /\ syncPc = "FAILED"
    /\ sync_answer = ConnError
    /\ Len(zones) = 2
    /\ devices # EmptyDict

\* C3: a step of the full sync changes the snapshot only when it ends one
\* call of it in success after an answer to every fetch of that call, and
\* then zones, devices and device_profiles are replaced together by the data
\* of that one call, with a detail and a profile for every zone that has an
\* adapter: of the latest call, or of an earlier call that was still in
\* flight (its zone list and every detail and profile it had gathered).
C3Theorem ==
    [][ (snap' # snap) =>
          /\ DOMAIN devices' = AdapterSerials(zones')
          /\ DOMAIN device_profiles' = AdapterSerials(zones')
          /\ \/ /\ syncPc \in {"GET_ZONES", "GATHER"}
                /\ syncPc' = "SUCCESS"
                /\ sync_answer' = "ok"
                /\ zones' = loc_zones'
                /\ devices' = loc_devices'
                /\ device_profiles' = loc_profiles'
             \/ \E i \in 1..Len(earlier_cycles) :
                  /\ EarlierCycleEnded(i)
                  /\ UNCHANGED thisCycleVars
                  /\ earlier_cycles[i].pc = "GATHER" =>
                       /\ zones' = earlier_cycles[i].loc_zones
                       /\ NextAdapterZone(zones', earlier_cycles[i].zi + 1) = 0
                       /\ \A s \in DOMAIN earlier_cycles[i].loc_devices :
                            /\ devices'[s] = earlier_cycles[i].loc_devices[s]
                            /\ device_profiles'[s] = earlier_cycles[i].loc_profiles[s]
      ]_vars

C3Witness ==
    /\ syncPc = "SUCCESS"
    /\ Len(zones) = 2
    /\ zones = loc_zones
    /\ DOMAIN devices = Serials
    /\ devices["s1"] # devices["s2"]

\* C4: when the last fetch of a cycle that has refreshed the token answers
\* (a step of that call, which leaves its await),
\* the cycle ends in SUCCESS with no error, the snapshot is the data fetched
\* by the retry, and get_zones was requested again for it.
C4Theorem ==
    [][ ( /\ syncPc \in {"GET_ZONES", "GATHER"}
          /\ refreshCalls >= 1
          /\ syncPc' # syncPc
          /\ sync_answer' = "ok"
          /\ zi' = 0 ) =>
          /\ syncPc' = "SUCCESS"
          /\ syncError' = "none"
          /\ getZonesCalls' >= 2
          /\ snap' = <<loc_zones', loc_devices', loc_profiles'>>
          /\ DOMAIN devices' = AdapterSerials(zones') ]_vars

C4Witness ==
    /\ syncPc = "SUCCESS"
    /\ refreshCalls = 1
    /\ getZonesCalls = 2
    /\ zones # << >>
    /\ snap = <<loc_zones, loc_devices, loc_profiles>>

\* C5: when a request of the full sync answers with ConnectionError or with
\* another fault than AuthError, the cycle is FAILED in that step: no token
\* refresh and no further get_zones.
C5Theorem ==
    [][ ( /\ syncPc \in {"GET_ZONES", "GATHER"}
          /\ sync_answer' \in {ConnError, OtherError} ) =>
          /\ syncPc' = "FAILED"
          /\ syncError' \in {"UpdateFailed: Error communicating with API",
                            "UpdateFailed: Unexpected error"}
          /\ refreshCalls' = refreshCalls
          /\ getZonesCalls' = getZonesCalls ]_vars

C5Witness ==
    /\ syncPc = "FAILED"
    /\ sync_answer = OtherError
    /\ syncError = "UpdateFailed: Unexpected error"
    /\ refreshCalls = 0

\* C6: every full-sync cycle that starts eventually ends in SUCCESS or FAILED
\* (given that every request of the cycle eventually returns), also when
\* every fetch answers AuthError and every token refresh succeeds.
C6Theorem == (watched # 0) ~> (watched = 0)

\* the followed call is the latest one, another call is in flight beside
\* it, and it has met AuthError and refreshed the token at every depth
C6Witness ==
    /\ watched = Len(earlier_cycles) + 1
    /\ earlier_cycles # << >>
    /\ syncPc = "REFRESHING_TOKEN"
    /\ sync_answer = AuthError
    /\ refreshCalls = MaxDepth
    /\ getZonesCalls = MaxDepth

\* C7: async_refresh_device never raises to its caller, and when
\* get_device_details answers with an error the call returns with zones,
\* devices and device_profiles unchanged.
C7Theorem ==
    [][ (cmdPc = "REFRESHING" /\ CmdAnswered) =>
          /\ cmdPc' = "RETURNED"
          /\ cmdError' = "none"
          /\ (Last(cmdLog') = "detail_error" => snap' = snap) ]_vars

C7Witness ==
    /\ cmdPc = "RETURNED"
    /\ Last(cmdLog) = "detail_error"
    /\ devices # EmptyDict

\* C8: in a send_command call that the cloud acknowledged, no step but a
\* successful refresh changes the snapshot or raises: the call whose refresh
\* failed returns without error with every cached field as before, and the
\* snapshot then changes only by a successful full sync or a
\* successful targeted refresh (of this call or of another one in flight).
C8Theorem ==
    [][ /\ ( /\ CmdAnswered
             /\ "ack" \in Events(cmdLog')
             /\ Last(cmdLog') # "detail" ) =>
              (snap' = snap /\ cmdPc' # "RAISED" /\ cmdError' = "none")
        /\ (snap' # snap) =>
              \/ (CycleEnded /\ syncPc' = "SUCCESS")
              \/ (cmdPc = "REFRESHING" /\ CmdAnswered /\ Last(cmdLog') = "detail")
              \/ \E i \in 1..Len(earlier_cycles) : EarlierCycleEnded(i)
              \/ \E i \in 1..Len(earlier_cmds) : EarlierRefreshEnded(i) ]_vars

C8Witness ==
    /\ cmdPc = "RETURNED"
    /\ cmdLog = << "send_command", "ack", "slept", "get_device_details",
                   "detail_error" >>
    /\ cmdSerial \in DOMAIN devices
    /\ cmdError = "none"

\* C9: when api.send_command answers with an error, send_command raises that
\* error, issues no get_device_details and leaves the snapshot unchanged.
C9Theorem ==
    [][ (cmdPc = "SENDING" /\ Last(cmdLog') \in ErrorKinds) =>
          /\ cmdPc' = "RAISED"
          /\ cmdError' = Last(cmdLog')
          /\ "get_device_details" \notin Events(cmdLog')
          /\ snap' = snap ]_vars

C9Witness ==
    /\ cmdPc = "RAISED"
    /\ cmdError = ConnError
    /\ cmdLog = << "send_command", ConnError >>
    /\ devices # EmptyDict

\* C10: in a send_command call get_device_details is issued only after the
\* cloud acknowledged the command and, after that, the settle delay elapsed.
C10Theorem ==
    \A i \in 1..Len(cmdLog) :
        cmdLog[i] = "get_device_details" =>
            \E j, k \in 1..Len(cmdLog) :
                /\ j < k
                /\ k < i
                /\ cmdLog[j] = "ack"
                /\ cmdLog[k] = "slept"

C10Witness ==
    /\ cmdPc = "RETURNED"
    /\ cmdLog = << "send_command", "ack", "slept", "get_device_details",
                   "detail" >>

\* the zones of zs whose adapter has this deviceSerial
ZonesOfSerial(zs, s) ==
    {i \in 1..Len(zs) : HasAdapter(zs[i]) /\ SerialOf(zs[i]) = s}

\* a step in which get_device_details answers async_refresh_device a detail
RefreshAnswered ==
    /\ cmdPc = "REFRESHING"
    /\ cmdLog' = Append(cmdLog, "detail")

\* C11: after a successful targeted refresh of serial S, devices[S] is the
\* detail just fetched, and in the zone whose adapter has deviceSerial S each
\* of the eight patched sub-fields that the detail carries has the detail's
\* value.
C11Theorem ==
    [][RefreshAnswered =>
        /\ cmdSerial \in DOMAIN devices'
        /\ devices'[cmdSerial] = last_detail'
        /\ \A i \in ZonesOfSerial(zones', cmdSerial) :
             \A k \in PatchedFields \cap DOMAIN last_detail' :
                zones'[i].adapter[1][k] = last_detail'[k]]_vars

C11Witness ==
    /\ cmdPc = "RETURNED"
    /\ Last(cmdLog) = "detail"
    /\ last_detail = DetailB
    /\ devices[cmdSerial] = DetailB
    /\ \E i \in ZonesOfSerial(zones, cmdSerial) :
         /\ zones[i].adapter[1].roomTemp = Some(23)
         /\ zones[i].adapter[1].power = Some(0)

\* what a targeted refresh of serial s may change between two snapshots:
\* devices[s] and the eight patched sub-fields of the adapter of the zone of s
RefreshFrame(old, new, s) ==
    /\ new[3] = old[3]
    /\ DOMAIN new[2] \in {DOMAIN old[2], DOMAIN old[2] \cup {s}}
    /\ \A x \in DOMAIN old[2] \ {s} : new[2][x] = old[2][x]
    /\ Len(new[1]) = Len(old[1])
    /\ \A i \in 1..Len(old[1]) :
         IF i \in ZonesOfSerial(old[1], s)
           THEN /\ DOMAIN new[1][i] = DOMAIN old[1][i]
                /\ \A f \in DOMAIN old[1][i] \ {"adapter"} :
                     new[1][i][f] = old[1][i][f]
                /\ new[1][i].adapter # None
                /\ DOMAIN new[1][i].adapter[1] \ PatchedFields
                     = DOMAIN old[1][i].adapter[1] \ PatchedFields
                /\ \A k \in DOMAIN old[1][i].adapter[1] \ PatchedFields :
                     new[1][i].adapter[1][k] = old[1][i].adapter[1][k]
           ELSE new[1][i] = old[1][i]

\* C12: a targeted refresh of serial S changes nothing but devices[S] and the
\* eight patched sub-fields of the adapter of the zone of S (every other
\* devices entry, every profile, every other zone and the zone's id, name,
\* adapter.deviceSerial and adapter.connected stay), whether it is the
\* refresh of the latest command or of an earlier one still in flight, and
\* no other step of a command changes the snapshot.
C12Theorem ==
    [][/\ (cmdPc = "REFRESHING" /\ CmdAnswered)
          => RefreshFrame(snap, snap', cmdSerial)
       /\ \A i \in 1..Len(earlier_cmds) :
            EarlierRefreshEnded(i)
              => RefreshFrame(snap, snap', earlier_cmds[i].serial)
       /\ (snap' # snap)
          => \/ (cmdPc = "REFRESHING" /\ CmdAnswered)
             \/ \E i \in 1..Len(earlier_cmds) : EarlierRefreshEnded(i)]_vars

C12Witness ==
    /\ cmdPc = "RETURNED"
    /\ Last(cmdLog) = "detail"
    /\ last_detail = DetailB
    /\ Len(zones) = 2
    /\ DOMAIN devices = Serials
    /\ \E s \in Serials \ {cmdSerial} : devices[s] = DetailA
    /\ devices[cmdSerial] = DetailB
    /\ device_profiles[cmdSerial] = << ProfileA >>
    /\ \E i \in ZonesOfSerial(zones, cmdSerial) :
         /\ zones[i].adapter[1].connected = Some(TRUE)
         /\ zones[i].adapter[1].spCool = None
         /\ zones[i].name = zones[i].id

\* C13 (as stated): at most one call of the full sync is in flight at any
\* time: a call made while another one is still fetching starts no second
\* run of the fetch.
C13Claim == CyclesInFlight <= 1

\* C14: when a targeted refresh of serial S interleaves with a full sync,
\* devices[S] holds the value of whichever wrote last: the step in which a
\* refresh gets its detail writes that detail to devices[S] (also in the
\* middle of a cycle), the step in which a full sync completes replaces the
\* whole snapshot by what the cloud answered to that call (whatever a
\* refresh wrote before), and no step but the end of a refresh or of a full
\* sync writes the snapshot.
C14Theorem ==
    [][/\ (cmdPc = "REFRESHING" /\ CmdAnswered /\ Last(cmdLog') = "detail")
          => /\ cmdSerial \in DOMAIN devices'
             /\ devices'[cmdSerial] = last_detail'
             /\ last_write' = "refresh"
       /\ (CycleEnded /\ syncPc' = "SUCCESS")
          => /\ snap' = <<loc_zones', loc_devices', loc_profiles'>>
             /\ last_write' = "sync"
       /\ (snap' # snap \/ last_write' # last_write)
          => \/ (cmdPc = "REFRESHING" /\ CmdAnswered /\ Last(cmdLog') = "detail")
             \/ (CycleEnded /\ syncPc' = "SUCCESS")
             \/ \E i \in 1..Len(earlier_cycles) :
                  EarlierCycleEnded(i) /\ last_write' = "sync"
             \/ \E i \in 1..Len(earlier_cmds) :
                  /\ EarlierRefreshEnded(i)
                  /\ last_write' = "refresh"
                  /\ earlier_cmds[i].serial \in DOMAIN devices']_vars

\* a full sync that completed after a refresh had written another detail for
\* the same serial
C14Witness ==
    /\ last_write = "sync"
    /\ syncPc = "SUCCESS"
    /\ cmdPc = "RETURNED"
    /\ Last(cmdLog) = "detail"
    /\ cmdSerial \in DOMAIN devices
    /\ devices[cmdSerial] # last_detail
    /\ devices[cmdSerial] = loc_devices[cmdSerial]

\* C15 (as stated): in a cycle with two or more zones that have an adapter,
\* the requests of a second device are issued while those of a first device
\* are still awaited.
C15Claim ==
    (syncPc = "GATHER" /\ Cardinality(AdapterSerials(loc_zones)) >= 2
        /\ zi = NextAdapterZone(loc_zones, 1))
      => \E r \in awaited : r[2] # SerialOf(loc_zones[zi])

\* C15 (amended): the devices of a cycle are fetched one after another: while
\* the cycle awaits a gather, the requests it awaits are the detail and the
\* profile request of one device, both issued, and the devices answered so
\* far are exactly those of the zones before it.
C15Theorem ==
    syncPc = "GATHER" =>
        /\ zi \in 1..Len(loc_zones)
        /\ HasAdapter(loc_zones[zi])
        /\ awaited = { <<"get_device_details", SerialOf(loc_zones[zi])>>,
                       <<"get_device_profile", SerialOf(loc_zones[zi])>> }
        /\ DOMAIN loc_devices = AdapterSerials(SubSeq(loc_zones, 1, zi - 1))
        /\ DOMAIN loc_profiles = DOMAIN loc_devices

C15Witness ==
    /\ syncPc = "GATHER"
    /\ Len(loc_zones) = 2
    /\ zi = 2
    /\ DOMAIN loc_devices = {"s1"}
    /\ awaited = { <<"get_device_details", "s2">>, <<"get_device_profile", "s2">> }

\* C16: after any sequence of full syncs and targeted refreshes, zone_data,
\* device_data and profile_data of every device view are the entries of the
\* current snapshot for its zone id and serial, and the empty record or the
\* empty sequence when the zone or the serial is not in the current snapshot.
C16Theorem ==
    \A e \in entities :
        /\ IF \E i \in 1..Len(zones) : zones[i].id = e.zone_id
             THEN \E i \in 1..Len(zones) :
                     zones[i].id = e.zone_id /\ ZoneData(e) = zones[i]
             ELSE ZoneData(e) = EmptyDict
        /\ DeviceData(e) = IF e.device_serial \in DOMAIN devices
                             THEN devices[e.device_serial] ELSE EmptyDict
        /\ ProfileData(e) = IF e.device_serial \in DOMAIN device_profiles
                              THEN device_profiles[e.device_serial] ELSE << >>

\* a view whose zone and serial had left the snapshot with a full sync, and
\* whose detail was then written by a targeted refresh: no zone, no profile,
\* and the detail of the refresh
C16Witness ==
    \E e \in entities :
        /\ zones # << >>
        /\ devices # EmptyDict
        /\ ZoneData(e) = EmptyDict
        /\ ProfileData(e) = << >>
        /\ last_write = "refresh"
        /\ cmdSerial = e.device_serial
        /\ cmdPc = "RETURNED"
        /\ last_detail = DetailB
        /\ DeviceData(e) = last_detail
        /\ \E s \in DOMAIN devices : devices[s] = DetailA

\* the effective value of a field: the detail's when the detail carries the
\* field, else the zone adapter's when it carries it, else the default
Effective(e, f, default) ==
    IF f \in DOMAIN DeviceData(e) THEN DeviceData(e)[f]
    ELSE IF ViewAdapter(e) # None /\ f \in DOMAIN ViewAdapter(e)[1]
      THEN ViewAdapter(e)[1][f]
    ELSE default

\* C17: every read path of an entity uses, for each of operationMode, power,
\* fanSpeed, airDirection, spCool, spHeat and humidity, the effective value
\* (detail, else adapter, else default): hvac_mode, hvac_action with its
\* setpoint comparison in auto, the target temperatures, fan_mode, swing_mode
\* and the humidity sensor. Stated for an entity whose zone has an adapter.
C17Claim ==
    /\ \A w \in DOMAIN humidity_sensors :
        (humidity_sensors[w] # None /\ ViewAdapter(w) # None) =>
            humidity_sensors[w] = Some(Ret(Effective(w, "humidity", None)))
    /\ \A w \in entities :
        (w \in DOMAIN ha_state /\ ViewAdapter(w) # None) =>
        LET e == w
            om == Effective(e, "operationMode", Some(OPERATION_MODE_OFF))
            pw == Effective(e, "power", Some(0))
            spc == Effective(e, "spCool", None)
            sph == Effective(e, "spHeat", None)
            mode == ModeFor(om, pw)
        IN  /\ ha_state[w].hvac_mode = Ret(Some(mode))
            /\ ha_state[w].hvac_action =
                  Ret(Some(ActionFor(om, pw, ha_state[w].current_temperature.value,
                                     sph, spc)))
            /\ ha_state[w].target_temperature =
                  Ret(IF mode = HVAC_COOL THEN CelsiusToUserUnit(spc)
                      ELSE IF mode = HVAC_HEAT THEN CelsiusToUserUnit(sph)
                      ELSE None)
            /\ ha_state[w].target_temperature_low =
                  Ret(IF mode = HVAC_HEAT_COOL THEN CelsiusToUserUnit(sph) ELSE None)
            /\ ha_state[w].target_temperature_high =
                  Ret(IF mode = HVAC_HEAT_COOL THEN CelsiusToUserUnit(spc) ELSE None)
            /\ ha_state[w].fan_mode = Ret(Effective(e, "fanSpeed", None))
            /\ ha_state[w].swing_mode = Ret(Effective(e, "airDirection", None))

\* C18: in every reachable snapshot, for every entity, when the effective
\* power is 0 (power 0 in the detail, else in the adapter, or in neither),
\* hvac_mode returns OFF.
C18Claim ==
    \A e \in entities :
        Effective(e, "power", Some(0)) = Some(0)
            => HvacMode(e) = Ret(Some(HVAC_OFF))

\* a step in which the service is called on an entity: the record of the last
\* service call changes, or a send_command starts
ServiceCalled(service) ==
    /\ sent' # EmptyDict
    /\ sent'.service = service
    /\ \/ sent' # sent
       \/ cmdLog' # cmdLog /\ cmdLog' = << "send_command" >>

\* the command of the service is being sent: the snapshot is the one the
\* service call has read (no other call is in flight)
Sending(service) ==
    /\ cmdPc = "SENDING"
    /\ cmdCaller # None
    /\ sent.service = service

\* C19: setting the HVAC mode to HEAT_COOL sends operationMode "auto", and for
\* COOL, HEAT, DRY and FAN_ONLY the operation mode sent is one that hvac_mode
\* reads back as the mode that was set.
C19Claim ==
    (sent # EmptyDict /\ sent.service = "set_hvac_mode" /\ sent.commands # None) =>
        /\ sent.arg = HVAC_HEAT_COOL
              => sent.commands[1].operationMode = Some(OPERATION_MODE_AUTO)
        /\ sent.arg \in {HVAC_COOL, HVAC_HEAT, HVAC_DRY, HVAC_FAN_ONLY}
              => ModeFor(sent.commands[1].operationMode, Some(1)) = sent.arg

\* C20: with power on, hvac_mode is OFF, COOL, HEAT, DRY, FAN_ONLY for the
\* operation modes off, cool, heat, dry, vent and HEAT_COOL for each of auto,
\* autoCool and autoHeat.
C20Claim ==
    \A w \in entities :
    \A m \in KumoModes :
        (/\ w \in DOMAIN ha_state
         /\ Effective(w, "power", Some(0)) = Some(1)
         /\ Effective(w, "operationMode", Some(OPERATION_MODE_OFF)) = Some(m))
          => ha_state[w].hvac_mode =
               Ret(Some(CASE m = "off" -> "off"
                          [] m = "cool" -> "cool"
                          [] m = "heat" -> "heat"
                          [] m = "dry" -> "dry"
                          [] m = "vent" -> "fan_only"
                          [] m \in {"auto", "autoCool", "autoHeat"} -> "heat_cool"))

\* C21: hvac_action is OFF when the mode is OFF; otherwise HEATING for heat
\* and autoHeat, COOLING for cool and autoCool, DRYING for dry, FAN for vent;
\* for auto it compares the room temperature with the setpoints on one scale
\* (degrees Celsius, as the cloud reports all three): COOLING at or above
\* spCool, else HEATING at or below spHeat, else IDLE, and IDLE when one of
\* the three is unknown. The setpoints are the ones hvac_action reads. Stated
\* for an entity whose zone has an adapter.
C21Claim ==
    \A w \in entities :
    (w \in DOMAIN ha_state /\ ViewAdapter(w) # None) =>
        LET e == w
            om == Effective(e, "operationMode", Some(OPERATION_MODE_OFF))
            pw == Effective(e, "power", Some(0))
            room == GetOr(ViewAdapter(e)[1], "roomTemp", None)
            sp_heat == AdapterFirst(e, "spHeat").value
            sp_cool == AdapterFirst(e, "spCool").value
            action ==
                IF ModeFor(om, pw) = HVAC_OFF THEN ACTION_OFF
                ELSE IF om \in {Some("heat"), Some("autoHeat")} THEN ACTION_HEATING
                ELSE IF om \in {Some("cool"), Some("autoCool")} THEN ACTION_COOLING
                ELSE IF om = Some("dry") THEN ACTION_DRYING
                ELSE IF om = Some("vent") THEN ACTION_FAN
                ELSE IF room = None \/ sp_heat = None \/ sp_cool = None THEN ACTION_IDLE
                ELSE IF room[1] >= sp_cool[1] THEN ACTION_COOLING
                ELSE IF room[1] <= sp_heat[1] THEN ACTION_HEATING
                ELSE ACTION_IDLE
        IN  ha_state[w].hvac_action = Ret(Some(action))

\* C22: the HVAC mode list contains OFF and COOL for every device, with or
\* without a profile; HEAT and HEAT_COOL exactly when the profile has
\* hasModeHeat, DRY exactly when hasModeDry, FAN_ONLY exactly when hasModeVent.
C22Claim ==
    \A w \in entities :
    w \in DOMAIN ha_state =>
        LET profile == ProfileData(w)
            has(flag) == profile # << >> /\ GetOr(profile[1], flag, FALSE)
            modes == {ha_state[w].hvac_modes[i] : i \in 1..Len(ha_state[w].hvac_modes)}
        IN  /\ HVAC_OFF \in modes
            /\ HVAC_COOL \in modes
            /\ HVAC_HEAT \in modes <=> has("hasModeHeat")
            /\ HVAC_HEAT_COOL \in modes <=> has("hasModeHeat")
            /\ HVAC_DRY \in modes <=> has("hasModeDry")
            /\ HVAC_FAN_ONLY \in modes <=> has("hasModeVent")

\* C29: the fan-mode list is absent when the profile is absent or empty or
\* its numberOfFanSpeeds is 0 (or not given); otherwise it is AUTO first
\* exactly when hasFanSpeedAuto is set, followed by LOW for n >= 1, MEDIUM for
\* n >= 2, HIGH for n >= 3 and POWERFUL for n >= 4, in that order; n = 3 with
\* auto gives [AUTO, LOW, MEDIUM, HIGH].
C29Theorem ==
    \A w \in entities :
    w \in DOMAIN ha_state =>
        LET profile == ProfileData(w)
            n == IF profile = << >> THEN 0
                 ELSE GetOr(profile[1], "numberOfFanSpeeds", 0)
            auto == profile # << >> /\ GetOr(profile[1], "hasFanSpeedAuto", FALSE)
            speeds == << FAN_SPEED_LOW, FAN_SPEED_MEDIUM, FAN_SPEED_HIGH,
                         FAN_SPEED_POWERFUL >>
            listed == SubSeq(speeds, 1, IF n >= 4 THEN 4 ELSE n)
        IN  /\ n = 0 => ha_state[w].fan_modes = None
            /\ (n > 0 /\ auto) =>
                  ha_state[w].fan_modes = Some(<< FAN_SPEED_AUTO >> \o listed)
            /\ (n > 0 /\ ~auto) => ha_state[w].fan_modes = Some(listed)
            /\ (n = 3 /\ auto) =>
                  ha_state[w].fan_modes = Some(<< "auto", "low", "medium", "high" >>)

\* a state written for a profile with three fan speeds and the auto speed
C29Witness ==
    \E w \in entities :
    /\ w \in DOMAIN ha_state
    /\ ProfileData(w) # << >>
    /\ GetOr(ProfileData(w)[1], "numberOfFanSpeeds", 0) = 3
    /\ GetOr(ProfileData(w)[1], "hasFanSpeedAuto", FALSE)
    /\ ha_state[w].fan_modes = Some(<< "auto", "low", "medium", "high" >>)

\* C23: whatever the target mode, OFF included, the command that
\* async_set_hvac_mode sends carries, next to the operationMode, the current
\* effective spCool and the current effective spHeat when they are known.
C23Claim ==
    Sending("set_hvac_mode") =>
        \A e \in entities : \A f \in {"spCool", "spHeat"} :
            /\ "operationMode" \in DOMAIN sent.commands[1]
            /\ Effective(e, f, None) # None =>
                  /\ f \in DOMAIN sent.commands[1]
                  /\ sent.commands[1][f] = Effective(e, f, None)

\* C24: when the entity is in COOL, setting a temperature sends spCool = the
\* new value (converted to Celsius) together with the current effective
\* spHeat, unchanged, when it is known; in HEAT it sends spHeat = the new value
\* together with the current effective spCool; in HEAT_COOL it sends spHeat
\* from target_temp_low and spCool from target_temp_high, each exactly when
\* supplied, and nothing else.
C24Theorem ==
    [][ServiceCalled("set_temperature") =>
        \A e \in entities :
            LET mode == HvacMode(e)
                kw == sent'.arg
                keys == IF sent'.commands = None THEN {} ELSE DOMAIN sent'.commands[1]
                val(f) == sent'.commands[1][f]
                kept(f) == IF Effective(e, f, None) = None THEN f \notin keys
                           ELSE f \in keys /\ val(f) = Effective(e, f, None)
                set(f, v) == f \in keys /\ val(f) = UserUnitToCelsius(v)
            IN  /\ (mode = Ret(Some(HVAC_COOL)) /\ kw.temperature # None) =>
                      set("spCool", kw.temperature) /\ kept("spHeat")
                /\ (mode = Ret(Some(HVAC_HEAT)) /\ kw.temperature # None) =>
                      set("spHeat", kw.temperature) /\ kept("spCool")
                /\ mode = Ret(Some(HVAC_HEAT_COOL)) =>
                      /\ IF kw.target_temp_low # None
                           THEN set("spHeat", kw.target_temp_low)
                           ELSE "spHeat" \notin keys
                      /\ IF kw.target_temp_high # None
                           THEN set("spCool", kw.target_temp_high)
                           ELSE "spCool" \notin keys
                /\ keys \subseteq {"spCool", "spHeat"}]_vars

\* a temperature set in COOL while the detail carries another spHeat than the
\* adapter: the command carries the new spCool and the detail's spHeat
C24Witness ==
    /\ Sending("set_temperature")
    /\ sent.arg.temperature # None
    /\ \E e \in entities :
         /\ HvacMode(e) = Ret(Some(HVAC_COOL))
         /\ "spHeat" \in DOMAIN DeviceData(e)
         /\ "spHeat" \in DOMAIN ViewAdapter(e)[1]
         /\ sent.commands # None
         /\ DOMAIN sent.commands[1] = {"spCool", "spHeat"}
         /\ sent.commands[1].spHeat = DeviceData(e).spHeat

\* C25: when the payload has been issued twice in immediate succession and
\* the targeted refresh of each issue has answered, against a cloud that
\* applies a command by overwriting the named fields, the cached state of the
\* device (devices[serial] and the fields of its zone's adapter) is the one
\* that the first issue and its refresh had left.
C25Theorem ==
    (issued = 2 /\ cmdPc = "RETURNED" /\ Last(cmdLog) = "detail") =>
        /\ after_first # None
        /\ CachedState(snap, cmdSerial) = after_first[1]

\* the second issue has been refreshed, and the cache holds a value of the
\* payload both in devices[serial] and in the adapter of the device's zone
C25Witness ==
    /\ issued = 2
    /\ cmdPc = "RETURNED"
    /\ Last(cmdLog) = "detail"
    /\ after_first # None
    /\ \E f \in DOMAIN payload : Get(devices[cmdSerial], f) = payload[f]
    /\ \E z \in 1..Len(zones) :
         /\ HasAdapter(zones[z])
         /\ \E f \in DOMAIN payload : zones[z].adapter[1][f] = payload[f]

\* C26: in every reachable snapshot, a device is available exactly as
\* devices[serial].connected says when the detail carries connected; otherwise
\* as the adapter of its zone says when that adapter carries connected;
\* otherwise it is not available.
C26Claim ==
    \A e \in entities :
        DeviceAvailable(e) =
            Ret(IF "connected" \in DOMAIN DeviceData(e) THEN DeviceData(e).connected
                ELSE IF /\ "adapter" \in DOMAIN ZoneData(e)
                        /\ ZoneData(e).adapter # None
                        /\ "connected" \in DOMAIN ZoneData(e).adapter[1]
                  THEN ZoneData(e).adapter[1].connected
                ELSE Some(FALSE))

\* C27: an entity reports available only when the device is available and
\* the most recent full-sync cycle succeeded: the flag the entity reads is
\* False from the step in which a cycle fails, and it changes only in a step
\* that ends a cycle, to that cycle's outcome; so after a failed full sync no
\* entity is available until a later full sync succeeds (a call that ends
\* later, whenever it started), whatever a targeted refresh in between
\* answers.
C27Theorem ==
    /\ [](\A e \in entities :
            EntityAvailable(e) = Ret(Some(TRUE)) =>
                last_update_success /\ DeviceAvailable(e) = Ret(Some(TRUE)))
    /\ [][/\ (syncPc \in InFlight /\ syncPc' = "FAILED") =>
                \A e \in entities' : EntityAvailable(e)' # Ret(Some(TRUE))
          /\ (last_update_success' # last_update_success) =>
                \/ /\ syncPc \in InFlight
                   /\ syncPc' \in {"SUCCESS", "FAILED"}
                   /\ last_update_success' = (syncPc' = "SUCCESS")
                \/ \E i \in 1..Len(earlier_cycles) :
                     /\ earlier_cycles' = Remove(earlier_cycles, i)
                     /\ ~last_update_success' => snap' = snap
                     /\ last_update_success' => last_write' = "sync"
          /\ ( /\ ~last_update_success
               /\ ~(syncPc \in InFlight /\ syncPc' = "SUCCESS")
               /\ ~(Len(earlier_cycles') < Len(earlier_cycles)) ) =>
                \A e \in entities' : EntityAvailable(e)' # Ret(Some(TRUE))]_vars

\* the last full sync has failed, a targeted refresh has answered a detail
\* that says connected, the device is available and the entity is not
C27Witness ==
    /\ syncPc = "FAILED"
    /\ ~last_update_success
    /\ cmdPc = "RETURNED"
    /\ Last(cmdLog) = "detail"
    /\ Get(last_detail, "connected") = Some(TRUE)
    /\ \E e \in entities :
         /\ e.device_serial = cmdSerial
         /\ DeviceAvailable(e) = Ret(Some(TRUE))
         /\ EntityAvailable(e) = Ret(Some(FALSE))

\* C28: when hvac_mode is COOL the target temperature is the effective spCool
\* and when it is HEAT the effective spHeat (in the display unit), and no low
\* or high bound is exposed; when it is HEAT_COOL the single target is absent,
\* the low bound is the effective spHeat and the high bound the effective
\* spCool; when it is OFF, DRY or FAN_ONLY neither the single target nor the
\* bounds are exposed.
C28Theorem ==
    \A w \in entities :
    w \in DOMAIN ha_state =>
        LET e == w
            mode == ha_state[w].hvac_mode
            sp_cool == CelsiusToUserUnit(Effective(e, "spCool", None))
            sp_heat == CelsiusToUserUnit(Effective(e, "spHeat", None))
            target == ha_state[w].target_temperature
            low == ha_state[w].target_temperature_low
            high == ha_state[w].target_temperature_high
        IN  /\ mode = Ret(Some(HVAC_COOL)) =>
                  target = Ret(sp_cool) /\ low = Ret(None) /\ high = Ret(None)
            /\ mode = Ret(Some(HVAC_HEAT)) =>
                  target = Ret(sp_heat) /\ low = Ret(None) /\ high = Ret(None)
            /\ mode = Ret(Some(HVAC_HEAT_COOL)) =>
                  target = Ret(None) /\ low = Ret(sp_heat) /\ high = Ret(sp_cool)
            /\ mode \in {Ret(Some(HVAC_OFF)), Ret(Some(HVAC_DRY)), Ret(Some(HVAC_FAN_ONLY))} =>
                  target = Ret(None) /\ low = Ret(None) /\ high = Ret(None)

\* a state written in HEAT_COOL while the detail and the adapter carry
\* different setpoints: the bounds are the detail's, the single target absent
C28Witness ==
    \E w \in entities :
    /\ w \in DOMAIN ha_state
    /\ ha_state[w].hvac_mode = Ret(Some(HVAC_HEAT_COOL))
    /\ "spHeat" \in DOMAIN DeviceData(w)
    /\ "spHeat" \in DOMAIN ViewAdapter(w)[1]
    /\ ha_state[w].target_temperature = Ret(None)
    /\ ha_state[w].target_temperature_low =
          Ret(CelsiusToUserUnit(DeviceData(w).spHeat))
    /\ ha_state[w].target_temperature_high =
          Ret(CelsiusToUserUnit(DeviceData(w).spCool))

\* C30: with the Fahrenheit display unit every temperature read (current,
\* target, low, high, minimum, maximum) is the whole degree nearest to
\* C * 9 / 5 + 32 and 24 C reads as 75, and every temperature written by
\* set_temperature is (F - 32) * 5 / 9, not rounded; with the Celsius display
\* unit reads and writes pass the value through unchanged.
C30Theorem ==
    \A w \in entities :
    LET Reads(c, v) ==
            IF c = None THEN v = None
            ELSE /\ v # None
                 /\ IF temperature_unit = FAHRENHEIT
                      THEN /\ 10 * v[1] - (18 * c[1] + 320) \in -5..5
                           /\ c[1] = 24 => v[1] = 75
                      ELSE v = c
        Writes(t, v) ==
            IF temperature_unit = FAHRENHEIT
              THEN v = [num |-> (t - 32) * 5, den |-> 9]
              ELSE v = t
    IN  /\ w \in DOMAIN ha_state =>
              LET profile == ProfileData(w)
                  lo == IF profile = << >> THEN 16
                        ELSE Min2(profile[1].minimumSetPoints.heat,
                                  profile[1].minimumSetPoints.cool)
                  hi == IF profile = << >> THEN 30
                        ELSE Max2(profile[1].maximumSetPoints.heat,
                                  profile[1].maximumSetPoints.cool)
              IN  /\ Reads(Some(lo), Some(ha_state[w].min_temp))
                  /\ Reads(Some(hi), Some(ha_state[w].max_temp))
        /\ (w \in DOMAIN ha_state /\ ViewAdapter(w) # None) =>
              LET e == w
                  mode == ha_state[w].hvac_mode.value
                  sp_cool == Effective(e, "spCool", None)
                  sp_heat == Effective(e, "spHeat", None)
              IN  /\ Reads(GetOr(ViewAdapter(e)[1], "roomTemp", None),
                           ha_state[w].current_temperature.value)
                  /\ mode = Some(HVAC_COOL) =>
                        Reads(sp_cool, ha_state[w].target_temperature.value)
                  /\ mode = Some(HVAC_HEAT) =>
                        Reads(sp_heat, ha_state[w].target_temperature.value)
                  /\ mode = Some(HVAC_HEAT_COOL) =>
                        /\ Reads(sp_heat, ha_state[w].target_temperature_low.value)
                        /\ Reads(sp_cool, ha_state[w].target_temperature_high.value)
        /\ Sending("set_temperature") =>
              \A e \in entities :
                  LET mode == HvacMode(e).value
                      kw == sent.arg
                      c == sent.commands[1]
                  IN  /\ mode = Some(HVAC_COOL) => Writes(kw.temperature[1], c.spCool[1])
                      /\ mode = Some(HVAC_HEAT) => Writes(kw.temperature[1], c.spHeat[1])
                      /\ (mode = Some(HVAC_HEAT_COOL) /\ kw.target_temp_low # None) =>
                            Writes(kw.target_temp_low[1], c.spHeat[1])
                      /\ (mode = Some(HVAC_HEAT_COOL) /\ kw.target_temp_high # None) =>
                            Writes(kw.target_temp_high[1], c.spCool[1])

\* Fahrenheit: a room temperature of 24 C has been read as 75 and a heat
\* setpoint of 20 C as 68, and 75 F has been written as 215/9 C
C30Witness ==
    \E w \in entities :
    /\ temperature_unit = FAHRENHEIT
    /\ w \in DOMAIN ha_state
    /\ ViewAdapter(w) # None
    /\ GetOr(ViewAdapter(w)[1], "roomTemp", None) = Some(24)
    /\ ha_state[w].current_temperature = Ret(Some(75))
    /\ ha_state[w].hvac_mode = Ret(Some(HVAC_HEAT))
    /\ ha_state[w].target_temperature = Ret(Some(68))
    /\ Sending("set_temperature")
    /\ sent.arg.temperature = Some(75)
    /\ sent.commands # None
    /\ sent.commands[1].spHeat = Some([num |-> 215, den |-> 9])

\* C31: the value of a minimum or maximum setpoint sensor is the profile
\* limit read when the sensor was constructed, and it stays that value through
\* every later full sync and targeted refresh, also when a later full sync
\* stores a different or an empty profile for the device.
C31Theorem ==
    [][/\ (~setup_done /\ setup_done') =>
             \A s \in sensors' :
                 NativeValue(s)' = GetSetpointValue(s.device, s.limit, s.mode)'
       /\ setup_done =>
             /\ sensors' = sensors
             /\ \A s \in sensors : NativeValue(s)' = NativeValue(s)]_vars

\* a sensor that cached 16 reads 16 after a full sync stored another profile
\* for its device and a targeted refresh has answered since
C31Witness ==
    \E s \in sensors :
        /\ s.limit = "min" /\ s.mode = "cool"
        /\ NativeValue(s) = Some(16)
        /\ GetSetpointValue(s.device, s.limit, s.mode) \in {None, Some(18)}
        /\ last_write = "refresh"

\* C32: every full-sync cycle that fails surfaces to the poll loop as the one
\* failure kind UpdateFailed, whichever call failed and with whichever error,
\* a token refresh that fails with a connection error or another fault
\* included.
C32Claim ==
    syncPc = "FAILED" =>
        syncError \in {"UpdateFailed: Authentication failed",
                       "UpdateFailed: Error communicating with API",
                       "UpdateFailed: Unexpected error"}

\* C33: a successful targeted refresh does not erase adapter values the new
\* detail does not carry: each of the eight patched sub-fields (roomTemp in
\* particular) that is absent from the fetched detail keeps, in the zone's
\* adapter, the value it had before the refresh.
C33Claim ==
    [][RefreshAnswered =>
        \A i \in ZonesOfSerial(zones, cmdSerial) :
            \A k \in PatchedFields \ DOMAIN last_detail' :
                Get(zones'[i].adapter[1], k) = Get(zones[i].adapter[1], k)]_vars

\* C34: in every reachable state the key set of devices equals the key set of
\* profiles and equals the set of deviceSerial values of the zones with an
\* adapter in the current zone sequence, after any sequence of full syncs,
\* commands and targeted refreshes (a command sent through an entity whose
\* device is no longer in the latest full poll included).
C34Claim ==
    /\ DOMAIN devices = DOMAIN device_profiles
    /\ DOMAIN devices = AdapterSerials(zones)

\* C35: for the same snapshot hvac_action is the same whether the consumer's
\* display unit is Celsius or Fahrenheit: what an entity reports in its unit
\* is what the same decision gives where the display unit is Celsius (the
\* current temperature is then the adapter's roomTemp as it is).
C35Claim ==
    \A w \in entities :
    w \in DOMAIN ha_state =>
        LET e == w
            in_celsius ==
                IF ViewAdapter(e) = None THEN AttributeError
                ELSE Ret(Some(ActionFor(
                         DetailFirst(e, "operationMode", Some(OPERATION_MODE_OFF)).value,
                         DetailFirst(e, "power", Some(0)).value,
                         GetOr(ViewAdapter(e)[1], "roomTemp", None),
                         AdapterFirst(e, "spHeat").value,
                         AdapterFirst(e, "spCool").value)))
        IN  ha_state[w].hvac_action = in_celsius

\* C36: in every reachable snapshot hvac_action is OFF if and only if
\* hvac_mode is OFF, and the action agrees with a single-function mode: HEAT
\* gives HEATING, COOL gives COOLING, DRY gives DRYING, FAN_ONLY gives FAN.
C36Theorem ==
    \A w \in entities :
    w \in DOMAIN ha_state =>
        /\ (ha_state[w].hvac_action = Ret(Some(ACTION_OFF)))
              <=> (ha_state[w].hvac_mode = Ret(Some(HVAC_OFF)))
        /\ \A p \in { <<HVAC_HEAT, ACTION_HEATING>>, <<HVAC_COOL, ACTION_COOLING>>,
                       <<HVAC_DRY, ACTION_DRYING>>, <<HVAC_FAN_ONLY, ACTION_FAN>> } :
              ha_state[w].hvac_mode = Ret(Some(p[1]))
                  => ha_state[w].hvac_action = Ret(Some(p[2]))

\* a device whose detail says heat with power 0 is written as OFF and OFF
C36Witness ==
    \E w \in entities :
    /\ w \in DOMAIN ha_state
    /\ Get(DeviceData(w), "operationMode") = Some(OPERATION_MODE_HEAT)
    /\ Get(DeviceData(w), "power") = Some(0)
    /\ ha_state[w].hvac_mode = Ret(Some(HVAC_OFF))
    /\ ha_state[w].hvac_action = Ret(Some(ACTION_OFF))

\* C37: no read of an existing entity raises after a later full sync changes
\* its zone: when the zone of an entity created at setup comes back with a
\* null adapter, or is missing from the zone sequence, available returns
\* false, and hvac_mode, the temperatures, fan_mode and swing_mode return a
\* value or absent, never an error.
C37Claim ==
    \A e \in entities :
        /\ ~EntityAvailable(e).raised
        /\ ~HvacMode(e).raised
        /\ ~CurrentTemperature(e).raised
        /\ ~TargetTemperature(e).raised
        /\ ~TargetTemperatureLow(e).raised
        /\ ~TargetTemperatureHigh(e).raised
        /\ ~FanMode(e).raised
        /\ ~SwingMode(e).raised
        /\ (ZoneData(e) = EmptyDict \/ ViewAdapter(e) = None)
              => EntityAvailable(e) = Ret(Some(FALSE))

\* C38: setting a temperature while the mode is OFF, DRY or FAN_ONLY, or in
\* COOL or HEAT without a single target value, or in HEAT_COOL with neither
\* low nor high, sends no command to the cloud, starts no targeted refresh
\* and leaves the snapshot unchanged.
C38Theorem ==
    [][ServiceCalled("set_temperature") =>
        \A e \in entities :
            LET mode == HvacMode(e).value
                kw == sent'.arg
            IN  (/\ ~HvacMode(e).raised
                 /\ \/ mode \in {Some(HVAC_OFF), Some(HVAC_DRY), Some(HVAC_FAN_ONLY)}
                    \/ mode \in {Some(HVAC_COOL), Some(HVAC_HEAT)}
                         /\ kw.temperature = None
                    \/ mode = Some(HVAC_HEAT_COOL)
                         /\ kw.target_temp_low = None
                         /\ kw.target_temp_high = None)
                => /\ ~sent'.raised
                   /\ sent'.commands = None
                   /\ cmdPc' = cmdPc
                   /\ cmdLog' = cmdLog
                   /\ cmdSerial' = cmdSerial
                   /\ snap' = snap]_vars

\* a temperature set in DRY mode: nothing was sent, no command is in flight
C38Witness ==
    /\ sent # EmptyDict
    /\ sent.service = "set_temperature"
    /\ sent.arg.temperature # None
    /\ ~sent.raised
    /\ sent.commands = None
    /\ cmdPc = "idle"
    /\ cmdLog = << >>
    /\ \E e \in entities : HvacMode(e) = Ret(Some(HVAC_DRY))
====
